---- MODULE Spec2Model ----
(***************************************************************************)
(* Semantic-merge pass of the .lu/.qna parser (parseFileContents):         *)
(* parseLuAndQnaWithAntlr walks the sections of one syntax resource and    *)
(* merges every declaration into the LUIS registry.  One action of the     *)
(* model is one iteration of one of the section loops.                     *)
(*                                                                         *)
(* Strings that the code only compares are TLA+ strings; strings the code  *)
(* slices or searches (regex definitions, phrase-list words) are sequences *)
(* of characters.  Arrays are sequences.  The helper-class constructors    *)
(* (hclasses) store the values they are given.                             *)
(***************************************************************************)
EXTENDS Integers, Sequences, FiniteSets, TLC

VARIABLES LUIS,      \* parsedContent.LUISJsonStructure
          qna,       \* parsedContent.qnaJsonStructure and parsedContent.qnaAlterations
          phase,     \* the section loop parseLuAndQnaWithAntlr is in
          err,       \* the exception the parse ended with, if any
          prev,      \* the LUIS registry as the last step found it
          applied,   \* the declarations handled so far: source line, section, declaration
          log,       \* verbose flag of the parse
          locale,    \* locale of the parse
          errors,    \* luResource.Errors: the severities of the syntax diagnostics
          requests,  \* the URIs fetch has been called with
          additionalFilesToParse,  \* parsedContent.additionalFilesToParse
          stdout,    \* the warnings parseAndHandleModelInfo has written to process.stdout
          list,      \* the parserEntity flattenLists is called with
          retObj     \* what flattenLists returned and pushed on retObj.entitiesFound

vars == <<LUIS, qna, phase, err, prev, applied, log, locale, errors, requests, additionalFilesToParse, stdout, list, retObj>>

\* Number of declarations of one file.
MaxDecls == 3

-----------------------------------------------------------------------------
(* Arrays *)

Includes(s, x) == \E i \in DOMAIN s : s[i] = x

\* Array.prototype.find as an index: the first index whose item satisfies P, 0 if none
FindIdx(s, P(_)) ==
    IF \E i \in DOMAIN s : P(s[i])
    THEN CHOOSE i \in DOMAIN s : P(s[i]) /\ \A j \in 1..(i - 1) : ~P(s[j])
    ELSE 0

IdxByName(tbl, nm) == FindIdx(tbl, LAMBDA item : item.name = nm)

HasName(tbl, nm) == IdxByName(tbl, nm) # 0

RemoveAt(s, i) == [j \in 1..(Len(s) - 1) |-> IF j < i THEN s[j] ELSE s[j + 1]]

\* forEach(x => if (!acc.includes(x)) acc.push(x))
RECURSIVE PushNew(_, _)
PushNew(acc, xs) ==
    IF xs = <<>> THEN acc
    ELSE PushNew(IF Includes(acc, Head(xs)) THEN acc ELSE Append(acc, Head(xs)), Tail(xs))

\* [...new Set(xs)]
Dedupe(xs) == PushNew(<<>>, xs)

\* Code-unit order of the child names, as Array.prototype.sort compares them
StrRank == [s \in {"x", "y", "z"} |-> CASE s = "x" -> 1 [] s = "y" -> 2 [] s = "z" -> 3]

RECURSIVE InsertSorted(_, _)
InsertSorted(sorted, x) ==
    IF sorted = <<>> THEN <<x>>
    ELSE IF StrRank[x] < StrRank[Head(sorted)] THEN <<x>> \o sorted
    ELSE <<Head(sorted)>> \o InsertSorted(Tail(sorted), x)

RECURSIVE Sort(_)
Sort(s) == IF s = <<>> THEN <<>> ELSE InsertSorted(Sort(Tail(s)), Head(s))

\* String.prototype.includes on character sequences
IsSubstring(sub, s) ==
    \E i \in 0..(Len(s) - Len(sub)) : \A k \in 1..Len(sub) : s[i + k] = sub[k]

-----------------------------------------------------------------------------
(* Exceptions *)

NoErr == [code |-> "none", msg |-> ""]
Exc(code, msg) == [code |-> code, msg |-> msg]

\* Result of a helper: the registry as the helper leaves it, the exception
\* it threw (NoErr if it returned) and its return value.
Ret(L, roles) == [L |-> L, err |-> NoErr, ret |-> roles]
Throw(L, code, msg) == [L |-> L, err |-> Exc(code, msg), ret |-> <<>>]

-----------------------------------------------------------------------------
(* Helper classes *)

entityAndRoles(name, type, roles) == [name |-> name, type |-> type, roles |-> roles]

\* entityAndRoles.addRoles
addRoles(item, roles) == [item EXCEPT !.roles = PushNew(item.roles, roles)]

compositeEntity(name, children, roles) == [name |-> name, children |-> children, roles |-> roles]

regExEntity(name, regexPattern, roles) == [name |-> name, regexPattern |-> regexPattern, roles |-> roles]

patternAnyEntity(name, explicitList, roles) == [name |-> name, explicitList |-> explicitList, roles |-> roles]

closedLists(name, subLists, roles) == [name |-> name, subLists |-> subLists, roles |-> roles]

subList(canonicalForm, synonyms) == [canonicalForm |-> canonicalForm, list |-> synonyms]

modelObj(name, mode, words) == [name |-> name, mode |-> mode, words |-> words]

EmptyLUIS ==
    [intents |-> <<>>, entities |-> <<>>, composites |-> <<>>, closedLists |-> <<>>,
     regex_entities |-> <<>>, prebuiltEntities |-> <<>>, patternAnyEntities |-> <<>>,
     model_features |-> <<>>, patterns |-> <<>>, utterances |-> <<>>,
     flatListOfEntityAndRoles |-> <<>>, name |-> ""]

EmptyQna == [qnaList |-> <<>>, wordAlterations |-> <<>>, files |-> <<>>, urls |-> <<>>, name |-> ""]

-----------------------------------------------------------------------------
(* Role and item helpers *)

\* rolesMap is built once from the source roles: a role repeated in the
\* target roles and absent from the source is pushed each time it occurs.
mergeRoles(srcEntityRoles, tgtEntityRoles) ==
    srcEntityRoles \o SelectSeq(tgtEntityRoles, LAMBDA role : ~Includes(srcEntityRoles, role))

NewItem(type, value, roles) ==
    CASE type = "patternAnyEntities" -> [name |-> value, explicitList |-> <<>>, roles |-> roles]
      [] type = "composites" -> [name |-> value, children |-> <<>>, roles |-> roles]
      [] type = "intents" -> [name |-> value]
      [] OTHER -> [name |-> value, roles |-> roles]

addItemIfNotPresent(L, type, value) ==
    IF HasName(L[type], value) THEN L
    ELSE [L EXCEPT ![type] = Append(@, NewItem(type, value, <<>>))]

addItemOrRoleIfNotPresent(L, type, value, roles) ==
    LET i == IdxByName(L[type], value)
    IN  IF i # 0
        THEN [L EXCEPT ![type][i].roles = mergeRoles(@, roles)]
        ELSE [L EXCEPT ![type] = Append(@, NewItem(type, value, roles))]

-----------------------------------------------------------------------------
(* Flat name/role index *)

\* Variant of EntityFound that looks for the name among the roles only
EntityFound_RolesOnly(flat, entityName, entityType) ==
    FindIdx(flat, LAMBDA item : Includes(item.roles, entityName))

\* flatListOfEntityAndRoles.find: the first item that holds the name under
\* another type, or holds the name as a role; 0 if none
EntityFound(flat, entityName, entityType) ==
    FindIdx(flat, LAMBDA item : (item.name = entityName /\ item.type # entityType)
                                    \/ Includes(item.roles, entityName))

\* Variant of RoleFound that compares the role with roles only
RoleFound_RolesOnly(flat, role) ==
    \E i \in DOMAIN flat : Includes(flat[i].roles, role)

\* flatListOfEntityAndRoles.find(item => item.roles.includes(role) || item.name === role)
RoleFound(flat, role) ==
    \E i \in DOMAIN flat : Includes(flat[i].roles, role) \/ flat[i].name = role

\* roles is entity.Roles after split(',') and trim; an absent Roles is <<>>.
validateAndGetRoles(L, roles, entityName, entityType) ==
    LET newRoles == Dedupe(roles)
        flat == L.flatListOfEntityAndRoles
        entityFound == EntityFound(flat, entityName, entityType)
        oldEntity == FindIdx(flat, LAMBDA item : item.name = entityName /\ item.type = entityType)
    IN  IF entityFound # 0
        THEN Throw(L, "INVALID_INPUT",
                   IF flat[entityFound].name = entityName /\ flat[entityFound].type # entityType
                   THEN "Entity names must be unique"
                   ELSE "Entity name cannot be the same as a role name")
        ELSE IF \E i \in DOMAIN newRoles : RoleFound(flat, newRoles[i])
        THEN Throw(L, "INVALID_INPUT", "Roles must be unique across entity types")
        ELSE IF oldEntity # 0
        THEN Ret([L EXCEPT !.flatListOfEntityAndRoles[oldEntity] = addRoles(@, newRoles)], newRoles)
        ELSE Ret([L EXCEPT !.flatListOfEntityAndRoles =
                        Append(@, entityAndRoles(entityName, entityType, newRoles))], newRoles)

\* getEntityType over the NewEntities handled so far: the first NewEntities
\* item of a name is the first one handled, and validateAndGetRoles has
\* recorded its type in the flat index; a declaration that is itself the
\* first of its name finds its own, absent, Type.
getEntityType(entityName, L) ==
    LET i == IdxByName(L.flatListOfEntityAndRoles, entityName)
    IN  IF i = 0 THEN "" ELSE L.flatListOfEntityAndRoles[i].type

IncludesPhraselist(entityType) == entityType \in {"phraselist", "phraselist interchangeable"}

\* Variant of RemoveDuplicatePatternAnyEntity that removes the record and
\* returns no roles
RemoveDuplicatePatternAnyEntity_NoRoles(L, pEntityName, entityType) ==
    LET PAIdx == IdxByName(L.patternAnyEntities, pEntityName)
    IN  IF PAIdx # 0
        THEN IF IncludesPhraselist(entityType)
             THEN Throw(L, "INVALID_INPUT", "Phrase lists cannot be used as an entity in a pattern")
             ELSE Ret([L EXCEPT !.patternAnyEntities = RemoveAt(@, PAIdx)], <<>>)
        ELSE Ret(L, <<>>)

RemoveDuplicatePatternAnyEntity(L, pEntityName, entityType) ==
    LET PAIdx == IdxByName(L.patternAnyEntities, pEntityName)
    IN  IF PAIdx # 0
        THEN IF IncludesPhraselist(entityType)
             THEN Throw(L, "INVALID_INPUT", "Phrase lists cannot be used as an entity in a pattern")
             ELSE Ret([L EXCEPT !.patternAnyEntities = RemoveAt(@, PAIdx)],
                      L.patternAnyEntities[PAIdx].roles)
        ELSE Ret(L, <<>>)

\* for (idx = 0; idx < entities.length; idx++) if (entities[idx].name === name) entities.splice(idx, 1)
RECURSIVE SpliceLoop(_, _, _)
SpliceLoop(ents, nm, idx) ==
    IF idx > Len(ents) THEN ents
    ELSE IF ents[idx].name = nm THEN SpliceLoop(RemoveAt(ents, idx), nm, idx + 1)
    ELSE SpliceLoop(ents, nm, idx + 1)

\* A label's role is "" when the label carries no role.
VerifyAndUpdateSimpleEntityCollection(L, entityName, entityType) ==
    LET si == IdxByName(L.entities, entityName)
        simpleRoles == IF si # 0 THEN PushNew(<<>>, L.entities[si].roles) ELSE <<>>
        L1 == IF si # 0 /\ entityType # "Phrase List"
              THEN [L EXCEPT !.entities = SpliceLoop(@, entityName, 1)]
              ELSE L
        labelled(u) == \E k \in DOMAIN u.entities : u.entities[k].entity = entityName
        ui == FindIdx(L1.utterances, labelled)
        entityMatch == SelectSeq(L1.utterances[ui].entities, LAMBDA e : e.entity = entityName)
        labelRoles == [k \in DOMAIN entityMatch |-> entityMatch[k].role]
    IN  IF ui = 0 THEN Ret(L1, simpleRoles)
        ELSE IF entityType # "Phrase List" /\ Includes(labelRoles, "")
        THEN Throw(L1, "INVALID_INPUT", "cannot be added with explicit labelled values in utterances")
        ELSE Ret(L1, PushNew(simpleRoles, SelectSeq(labelRoles, LAMBDA r : r # "")))

-----------------------------------------------------------------------------
(* Declaration handlers *)

\* Take the registry and the roles on from a helper that returned
Then(r, K(_, _)) == IF r.err # NoErr THEN r ELSE K(r.L, r.ret)

handlePatternAny(L, entityName, entityRoles) ==
    Then(VerifyAndUpdateSimpleEntityCollection(L, entityName, "Pattern.Any"),
         LAMBDA L1, rolesImport :
            LET roles == PushNew(entityRoles, rolesImport)
            IN  IF ~HasName(L1.patternAnyEntities, entityName)
                THEN Ret([L1 EXCEPT !.patternAnyEntities =
                              Append(@, patternAnyEntity(entityName, <<>>, roles))], roles)
                \* PAExists.roles.includes is a function, never falsy: nothing is pushed
                ELSE Ret(L1, roles))

\* Names and legacy types that carry the interchangeable decoration
IncludesInterchangeable(s) == s \in {"a(interchangeable)", "phraselist interchangeable"}

\* lEntityType.split(/\(.*\)/g)[0]
BeforeParens(s) == IF s = "a(interchangeable)" THEN "a" ELSE s

RECURSIVE Flatten(_)
Flatten(lines) == IF lines = <<>> THEN <<>> ELSE Head(lines) \o Flatten(Tail(lines))

RECURSIVE JoinComma(_)
JoinComma(values) ==
    IF values = <<>> THEN <<>>
    ELSE IF Len(values) = 1 THEN values[1]
    ELSE values[1] \o <<",">> \o JoinComma(Tail(values))

\* forEach(v => if (!words.includes(v)) words += (words !== '' ? ',' : '') + v)
RECURSIVE AppendWords(_, _)
AppendWords(words, values) ==
    IF values = <<>> THEN words
    ELSE AppendWords(IF IsSubstring(Head(values), words) THEN words
                     ELSE words \o (IF words # <<>> THEN <<",">> ELSE <<>>) \o Head(values),
                     Tail(values))

\* Variant of handlePhraseList that does not look at the roles and records
\* the phrase list
handlePhraseList_AnyRoles(L, entityName, entityType, entityRoles, valuesList) ==
    Ret([L EXCEPT !.model_features =
            Append(@, modelObj(entityName, FALSE, JoinComma(Flatten(valuesList))))], <<>>)

\* entityType is "" when the caller passes undefined (new-style declaration);
\* valuesList holds, per line, the values of the line after split(/[,;]/) and trim.
handlePhraseList(L, entityName, entityType, entityRoles, valuesList) ==
    IF entityRoles # <<>>
    THEN Throw(L, "INVALID_INPUT", "Roles are not supported for Phrase Lists")
    ELSE Then(VerifyAndUpdateSimpleEntityCollection(L, entityName, "Phrase List"),
         LAMBDA L1, rolesImport :
            LET lEntityType == IF entityType # "" THEN entityType ELSE entityName
                intc == IncludesInterchangeable(lEntityType)
                name == IF intc /\ entityType = "" THEN BeforeParens(lEntityType) ELSE entityName
                pLValues == Flatten(valuesList)
                i == IdxByName(L1.model_features, name)
            IN  IF i # 0
                THEN IF L1.model_features[i].mode = intc
                     THEN Ret([L1 EXCEPT !.model_features[i].words = AppendWords(@, pLValues)], <<>>)
                     \* building the diagnostic reads entity.ParseTree, and no
                     \* entity is in scope here
                     ELSE Throw(L1, "ReferenceError", "entity is not defined")
                ELSE Ret([L1 EXCEPT !.model_features =
                              Append(@, modelObj(name, intc, JoinComma(pLValues)))], <<>>))

\* builtInTypes.consolidatedList
consolidatedList == {"number", "datetime"}

\* builtInTypes.perLocaleAvailability; "null" stands for null
perLocaleAvailability ==
    [l \in {"en-us", "zh-cn"} |->
        [t \in consolidatedList |->
            CASE t = "datetime" -> "datetimeV2"
              [] l = "zh-cn" -> "null"
              [] OTHER -> t]]

IncludesDatetime(s) == s \in {"datetime", "datetimeV2"}

\* entityName is the kind word of the declaration, entityType the prebuilt type
handlePrebuiltEntity(L, entityName, entityType, entityRoles, loc, verbose) ==
    Then(VerifyAndUpdateSimpleEntityCollection(L, entityType, entityName),
         LAMBDA L1, rolesImport :
            LET roles == PushNew(entityRoles, rolesImport)
                lloc == IF loc # "" THEN loc ELSE "en-us"
                prebuiltCheck == perLocaleAvailability[lloc][entityType]
            IN  IF entityType \notin consolidatedList
                THEN Throw(L1, "INVALID_INPUT", "Unknown PREBUILT entity")
                ELSE IF prebuiltCheck = "null"
                THEN IF verbose THEN Ret(L1, roles)
                     ELSE Throw(L1, "INVALID_INPUT", "PREBUILT entity is not available for the requested locale")
                ELSE IF IncludesDatetime(prebuiltCheck)
                THEN Ret(addItemOrRoleIfNotPresent(L1, "prebuiltEntities", prebuiltCheck, roles), roles)
                ELSE Ret(addItemOrRoleIfNotPresent(L1, "prebuiltEntities", entityType, roles), roles))

\* compositeChildren is the child definition after the brackets are dropped
\* and it is split on , or ; and trimmed.
handleComposite(L, entityName, compositeChildren, entityRoles, inlineChildRequired) ==
    LET si == IdxByName(L.entities, entityName)
        roles == IF si # 0 THEN PushNew(entityRoles, L.entities[si].roles) ELSE entityRoles
        L1 == IF si # 0 THEN [L EXCEPT !.entities = SpliceLoop(@, entityName, 1)] ELSE L
        ci == IdxByName(L1.composites, entityName)
        old == L1.composites[ci].children
    IN  IF compositeChildren = <<>> /\ inlineChildRequired
        THEN Throw(L1, "INVALID_COMPOSITE_ENTITY", "missing child entity definitions")
        ELSE IF ci = 0
        THEN Ret([L1 EXCEPT !.composites = Append(@, compositeEntity(entityName, compositeChildren, roles)),
                            !.entities = SelectSeq(@, LAMBDA e : e.name # entityName)], roles)
        \* both arrays are sorted in place by the comparison
        ELSE IF old # <<>> /\ Sort(compositeChildren) # Sort(old)
        THEN Throw([L1 EXCEPT !.composites[ci].children = Sort(old)],
                   "INVALID_COMPOSITE_ENTITY", "multiple definition with different children")
        ELSE IF old # <<>>
        THEN Ret(addItemOrRoleIfNotPresent(
                    [L1 EXCEPT !.composites[ci].children = Sort(old) \o Sort(compositeChildren)],
                    "composites", entityName, roles), roles)
        ELSE Ret(addItemOrRoleIfNotPresent(
                    [L1 EXCEPT !.composites[ci].children = compositeChildren],
                    "composites", entityName, roles), roles)

\* Variant of handleRegExEntity that takes a pattern of no characters like
\* a pattern left out
handleRegExEntity_EmptyAllowed(L, entityName, entityType, entityRoles) ==
    LET regex == IF entityType # <<>> THEN SubSeq(entityType, 2, Len(entityType) - 1) ELSE <<>>
    IN  IF HasName(L.regex_entities, entityName) THEN Ret(L, entityRoles)
        ELSE Ret([L EXCEPT !.regex_entities = Append(@, regExEntity(entityName, regex, entityRoles))],
                 entityRoles)

\* Variant of handleRegExEntity that stores the pattern of every declaration
handleRegExEntity_LastPattern(L, entityName, entityType, entityRoles) ==
    LET regex == IF entityType # <<>> THEN SubSeq(entityType, 2, Len(entityType) - 1) ELSE <<>>
        i == IdxByName(L.regex_entities, entityName)
    IN  IF i = 0
        THEN Ret([L EXCEPT !.regex_entities = Append(@, regExEntity(entityName, regex, entityRoles))],
                 entityRoles)
        ELSE Ret([L EXCEPT !.regex_entities[i].regexPattern = regex], entityRoles)

\* entityType is the definition between slashes included, <<>> when absent
handleRegExEntity(L, entityName, entityType, entityRoles) ==
    Then(VerifyAndUpdateSimpleEntityCollection(L, entityName, "RegEx"),
         LAMBDA L1, rolesImport :
            LET roles == PushNew(entityRoles, rolesImport)
                regex == IF entityType # <<>> THEN SubSeq(entityType, 2, Len(entityType) - 1) ELSE <<>>
                i == IdxByName(L1.regex_entities, entityName)
                old == L1.regex_entities[i].regexPattern
            IN  IF entityType # <<>> /\ regex = <<>>
                THEN Throw(L1, "INVALID_REGEX_ENTITY", "empty regex pattern")
                ELSE IF i = 0
                THEN Ret([L1 EXCEPT !.regex_entities = Append(@, regExEntity(entityName, regex, roles))], roles)
                ELSE IF old # <<>> /\ regex # <<>> /\ old # regex
                THEN Throw(L1, "INVALID_REGEX_ENTITY", "multiple regex patterns")
                ELSE Ret([addItemOrRoleIfNotPresent(L1, "regex_entities", entityName, roles)
                            EXCEPT !.regex_entities[i].regexPattern = IF old = <<>> THEN regex ELSE old],
                         roles))

\* Variant of AddSynonym that opens a sublist without normalized value for
\* a synonym that follows no header
AddSynonym_Headless(st, item) ==
    IF st.err # NoErr THEN st
    ELSE IF ~st.has
    THEN [st EXCEPT !.has = TRUE, !.addNV = TRUE, !.nvIdx = 0, !.nvNew = subList("", <<item>>)]
    ELSE IF st.nvIdx # 0
    THEN [st EXCEPT !.cl.subLists[st.nvIdx].list = PushNew(@, <<item>>)]
    ELSE [st EXCEPT !.nvNew.list = PushNew(@, <<item>>)]

\* One synonym of a synonyms line: nvExists is the sublist at nvIdx of the
\* closed list, or the sublist nvNew that is not pushed yet.
AddSynonym(st, item) ==
    IF st.err # NoErr THEN st
    ELSE IF ~st.has
    THEN [st EXCEPT !.err = Exc("SYNONYMS_NOT_A_LIST", "synonyms list without a normalized value")]
    ELSE IF st.nvIdx # 0
    THEN [st EXCEPT !.cl.subLists[st.nvIdx].list = PushNew(@, <<item>>)]
    ELSE [st EXCEPT !.nvNew.list = PushNew(@, <<item>>)]

RECURSIVE AddSynonyms(_, _)
AddSynonyms(st, items) ==
    IF items = <<>> THEN st ELSE AddSynonyms(AddSynonym(st, Head(items)), Tail(items))

\* Variant of ListLine that starts the sublist of a header without closing
\* the sublist that is open
ListLine_NoClose(st, line) ==
    IF st.err # NoErr THEN st
    ELSE IF line.header
    THEN [st EXCEPT !.addNV = TRUE, !.has = TRUE, !.nvIdx = 0,
                    !.nvNew = subList(line.items[1], <<>>)]
    ELSE AddSynonyms(st, line.items)

\* A line is [header, items]: a line that ends with ':' is a header and
\* items[1] its normalized value; any other line holds its synonyms.
ListLine(st, line) ==
    IF st.err # NoErr THEN st
    ELSE IF line.header
    THEN LET closed == IF st.addNV THEN [st EXCEPT !.cl.subLists = Append(@, st.nvNew)] ELSE st
             normalizedValue == line.items[1]
             found == FindIdx(closed.cl.subLists, LAMBDA sl : sl.canonicalForm = normalizedValue)
         IN  IF found # 0
             THEN [closed EXCEPT !.addNV = FALSE, !.has = TRUE, !.nvIdx = found]
             ELSE [closed EXCEPT !.addNV = TRUE, !.has = TRUE, !.nvIdx = 0,
                                 !.nvNew = subList(normalizedValue, <<>>)]
    ELSE AddSynonyms(st, line.items)

RECURSIVE ListLines(_, _)
ListLines(st, lines) ==
    IF lines = <<>> THEN st ELSE ListLines(ListLine(st, Head(lines)), Tail(lines))

handleClosedList(L, entityName, listLines, entityRoles) ==
    Then(VerifyAndUpdateSimpleEntityCollection(L, entityName, "List"),
         LAMBDA L1, rolesImport :
            LET roles == PushNew(entityRoles, rolesImport)
                ci == IdxByName(L1.closedLists, entityName)
                addCL == ci = 0
                st0 == [cl |-> IF addCL THEN closedLists(entityName, <<>>, <<>>) ELSE L1.closedLists[ci],
                        addNV |-> FALSE, has |-> FALSE, nvIdx |-> 0,
                        nvNew |-> subList("", <<>>), err |-> NoErr]
                st1 == ListLines(st0, listLines)
                st2 == IF st1.addNV THEN [st1 EXCEPT !.cl.subLists = Append(@, st1.nvNew)] ELSE st1
                cl == [st2.cl EXCEPT !.roles = PushNew(@, roles)]
            IN  IF st1.err # NoErr
                \* an existing closed list keeps what the lines before the throw did to it
                THEN [L |-> IF addCL THEN L1 ELSE [L1 EXCEPT !.closedLists[ci] = st1.cl],
                      err |-> st1.err, ret |-> <<>>]
                ELSE IF addCL
                THEN Ret([L1 EXCEPT !.closedLists = Append(@, cl)], roles)
                ELSE Ret([L1 EXCEPT !.closedLists[ci] = cl], roles))

-----------------------------------------------------------------------------
(* New-style (@) entity declarations *)

\* One iteration of the loop of parseAndHandleEntityV2.  entity.Type is ""
\* when the declaration names no type.
HandleNewEntity(L, entity, loc, verbose) ==
    LET entityName == entity.Name
        entityType == IF entity.Type = "" THEN getEntityType(entity.Name, L) ELSE entity.Type
    IN  IF entityType = ""
        THEN Throw(L, "INVALID_INPUT", "No type definition found for entity")
        ELSE IF entityType = entityName
        THEN Throw(L, "INVALID_INPUT", "Entity name cannot be the same as entity type")
        ELSE
        Then(validateAndGetRoles(L, entity.Roles, entityName, entityType),
         LAMBDA L1, newRoles :
        Then(RemoveDuplicatePatternAnyEntity(L1, entityName, entityType),
         LAMBDA L2, PAEntityRoles :
            LET entityRoles == PushNew(newRoles, PAEntityRoles)
            IN  CASE entityType = "simple" ->
                        Ret(addItemOrRoleIfNotPresent(L2, "entities", entityName, entityRoles), entityRoles)
                  [] entityType = "composite" ->
                        handleComposite(L2, entityName, entity.CompositeDefinition \o Flatten(entity.ListBody),
                                        entityRoles, FALSE)
                  [] entityType = "list" ->
                        handleClosedList(L2, entityName, entity.ListBody, entityRoles)
                  [] entityType = "patternany" ->
                        handlePatternAny(L2, entityName, entityRoles)
                  [] entityType = "prebuilt" ->
                        handlePrebuiltEntity(L2, "prebuilt", entityName, entityRoles, loc, verbose)
                  [] entityType = "regex" ->
                        handleRegExEntity(L2, entityName,
                                          IF entity.ListBody # <<>> /\ entity.ListBody[1] # <<>>
                                          THEN entity.ListBody[1] ELSE entity.RegexDefinition,
                                          entityRoles)
                  [] entityType = "phraselist" ->
                        handlePhraseList(L2, entityName, "", entityRoles, entity.ListBody)
                  \* ml and unknown types
                  [] OTHER -> Ret(L2, entityRoles)))

-----------------------------------------------------------------------------
(* Intents: utterances and patterns *)

(* A label is [entity, at, role, type, value, startPos, endPos]: at says    *)
(* that the name is written with a leading @, role is "" when absent, type  *)
(* is the LUISObjNameEnum table flattenLists assigned.  A text is a         *)
(* sequence of tokens and a token a sequence of strings: <<"hi">> is a      *)
(* word, <<"{", "a", "}">>, <<"{@", "a", "}">> and                          *)
(* <<"{", "a", ":", "r", "}">> are placeholders.                            *)

\* Variant of handleAtPrefix that takes the reference as an entity name
\* without looking for a role of that name
handleAtPrefix_NameOnly(entity, flatEntityAndRoles) == [entity EXCEPT !.at = FALSE]

\* flat items have no entityName field, so the match by name never succeeds
handleAtPrefix(entity, flatEntityAndRoles) ==
    IF ~entity.at THEN entity
    ELSE LET stripped == [entity EXCEPT !.at = FALSE]
             roleMatch == FindIdx(flatEntityAndRoles, LAMBDA item : Includes(item.roles, stripped.entity))
         IN  IF roleMatch # 0
             THEN [stripped EXCEPT !.role = stripped.entity,
                                   !.entity = flatEntityAndRoles[roleMatch].name]
             ELSE stripped

\* utterance.replace(`{${role}}`, `{${entity}:${role}}`): the first occurrence
ReplaceFirst(utterance, from, to) ==
    LET i == FindIdx(utterance, LAMBDA tok : tok = from)
    IN  IF i = 0 THEN utterance ELSE [utterance EXCEPT ![i] = to]

RECURSIVE AtForPattern(_, _, _, _)
AtForPattern(utterance, done, todo, flat) ==
    IF todo = <<>> THEN [utterance |-> utterance, entities |-> done]
    ELSE LET entity == IF Head(todo).at THEN handleAtPrefix(Head(todo), flat) ELSE Head(todo)
             rewritten == IF Head(todo).at /\ entity.role # ""
                          THEN ReplaceFirst(utterance, <<"{", entity.role, "}">>,
                                            <<"{", entity.entity, ":", entity.role, "}">>)
                          ELSE utterance
         IN  AtForPattern(rewritten, Append(done, entity), Tail(todo), flat)

\* Returns the utterance and entitiesFound, whose items it changes in place
handleAtForPattern(utterance, entitiesFound, flatEntityAndRoles) ==
    IF \E i \in DOMAIN utterance : utterance[i][1] = "{@"
    THEN AtForPattern([i \in DOMAIN utterance |->
                          IF utterance[i][1] = "{@" THEN <<"{">> \o Tail(utterance[i]) ELSE utterance[i]],
                      <<>>, entitiesFound, flatEntityAndRoles)
    ELSE [utterance |-> utterance, entities |-> entitiesFound]

KindTables == <<"entities", "composites", "closedLists", "regex_entities", "prebuiltEntities">>

RECURSIVE AddRoleWhereDefined(_, _, _)
AddRoleWhereDefined(L, entity, k) ==
    IF k > Len(KindTables) THEN L
    ELSE AddRoleWhereDefined(
            IF HasName(L[KindTables[k]], entity.entity) /\ entity.role # ""
            THEN addItemOrRoleIfNotPresent(L, KindTables[k], entity.entity, <<entity.role>>)
            ELSE L, entity, k + 1)

\* add all entities to pattern.Any only if they do not have another type
PatternEntity(L, entity) ==
    LET L1 == AddRoleWhereDefined(L, entity, 1)
    IN  IF \A k \in DOMAIN KindTables : ~HasName(L[KindTables[k]], entity.entity)
        THEN IF entity.role # ""
             THEN addItemOrRoleIfNotPresent(L1, "patternAnyEntities", entity.entity, <<entity.role>>)
             ELSE addItemIfNotPresent(L1, "patternAnyEntities", entity.entity)
        ELSE L1

RECURSIVE PatternEntities(_, _)
PatternEntities(L, entitiesFound) ==
    IF entitiesFound = <<>> THEN L
    ELSE PatternEntities(PatternEntity(L, Head(entitiesFound)), Tail(entitiesFound))

pattern(text, intentName) == [pattern |-> text, intent |-> intentName]

\* Variant of UtteranceEntity that registers every label as a simple entity,
\* whatever its name is defined as
UtteranceEntity_AllSimple(L, entity) ==
    IF entity.role # ""
    THEN Ret(addItemOrRoleIfNotPresent(L, "entities", entity.entity, <<entity.role>>), <<>>)
    ELSE Ret(addItemIfNotPresent(L, "entities", entity.entity), <<>>)

\* A labelled entity of an utterance without pattern.any labels, after handleAtPrefix
UtteranceEntity(L, entity) ==
    LET name == entity.entity
        role == entity.role
        otherEntities == L.entities \o L.prebuiltEntities \o L.closedLists \o L.regex_entities
                            \o L.model_features \o L.composites
        compositeExists == HasName(L.composites, name)
        listExists == HasName(L.closedLists, name)
        prebuiltExists == HasName(L.prebuiltEntities, name)
        regexExists == HasName(L.regex_entities, name)
        patternAnyIdx == IdxByName(L.patternAnyEntities, name)
        needsRole(kind) == Throw(L, "INVALID_INPUT", kind)
        withRole(type) == Ret(addItemOrRoleIfNotPresent(L, type, name, <<role>>), <<>>)
    IN  IF HasName(L.model_features, name)
           /\ \A i \in DOMAIN otherEntities : otherEntities[i].name # name
        THEN Throw(L, "INVALID_INPUT", "Phrase list entities cannot be given an explicit labelled value")
        ELSE IF ~compositeExists /\ ~listExists /\ ~prebuiltExists /\ ~regexExists /\ patternAnyIdx = 0
        THEN IF role # "" THEN withRole("entities")
             ELSE Ret(addItemIfNotPresent(L, "entities", name), <<>>)
        ELSE IF compositeExists
        THEN IF role # "" THEN withRole("composites") ELSE Ret(L, <<>>)
        ELSE IF listExists
        THEN IF role # "" THEN withRole("closedLists") ELSE needsRole("LIST entity needs a role")
        ELSE IF prebuiltExists
        THEN IF role # "" THEN withRole("prebuiltEntities") ELSE needsRole("PREBUILT entity needs a role")
        ELSE IF regexExists
        THEN IF role # "" THEN withRole("regex_entities") ELSE needsRole("Regex entity needs a role")
        ELSE IF entity.value # ""
        THEN LET roles == (IF role # "" THEN <<role>> ELSE <<>>) \o L.patternAnyEntities[patternAnyIdx].roles
                 L1 == addItemOrRoleIfNotPresent(L, "entities", name, roles)
             IN  Ret([L1 EXCEPT !.patternAnyEntities = RemoveAt(@, patternAnyIdx)], <<>>)
        ELSE IF role # "" THEN withRole("patternAnyEntities")
        ELSE Ret(L, <<>>)

RECURSIVE UtteranceEntities(_, _)
UtteranceEntities(r, entitiesFound) ==
    IF r.err # NoErr \/ entitiesFound = <<>> THEN r
    ELSE UtteranceEntities(UtteranceEntity(r.L, Head(entitiesFound)), Tail(entitiesFound))

utteranceEntity(item) ==
    [entity |-> item.entity, startPos |-> item.startPos, endPos |-> item.endPos, role |-> item.role]

\* Variant of PushLabels that pushes every label, with or without a value
PushLabels_AnyOffsets(st, entitiesFound) ==
    [st EXCEPT !.obj.entities = @ \o [i \in DOMAIN entitiesFound |-> utteranceEntity(entitiesFound[i])]]

\* Pushes the labels on the utterance object until a label without a value throws
RECURSIVE PushLabels(_, _)
PushLabels(st, entitiesFound) ==
    IF st.err # NoErr \/ entitiesFound = <<>> THEN st
    ELSE LET item == Head(entitiesFound)
         IN  IF item.startPos > item.endPos
             THEN [st EXCEPT !.err = Exc("MISSING_LABELLED_VALUE", "No labelled value found for entity")]
             ELSE PushLabels([st EXCEPT !.obj.entities = Append(@, utteranceEntity(item))],
                             Tail(entitiesFound))

\* Variant of AddUtterance that pushes a new utterance for every line
AddUtterance_AlwaysNew(L, utterance, intentName, entitiesFound) ==
    LET st == PushLabels([obj |-> [text |-> utterance, intent |-> intentName, entities |-> <<>>],
                          err |-> NoErr], entitiesFound)
    IN  IF st.err # NoErr THEN [L |-> L, err |-> st.err, ret |-> <<>>]
        ELSE Ret([L EXCEPT !.utterances = Append(@, st.obj)], <<>>)

AddUtterance(L, utterance, intentName, entitiesFound) ==
    LET ui == FindIdx(L.utterances, LAMBDA item : item.text = utterance /\ item.intent = intentName)
        obj0 == IF ui # 0 THEN L.utterances[ui]
                ELSE [text |-> utterance, intent |-> intentName, entities |-> <<>>]
        st == PushLabels([obj |-> obj0, err |-> NoErr], entitiesFound)
    IN  IF ui # 0
        THEN [L |-> [L EXCEPT !.utterances[ui] = st.obj], err |-> st.err, ret |-> <<>>]
        ELSE IF st.err # NoErr THEN [L |-> L, err |-> st.err, ret |-> <<>>]
        ELSE Ret([L EXCEPT !.utterances = Append(@, st.obj)], <<>>)

\* helpers.isUtterancePattern: the text carries pattern syntax
isUtterancePattern(utterance) ==
    \E i \in DOMAIN utterance : utterance[i][1] \in {"{", "{@", "("}

\* One utterance line of one intent: the intent is added on first reference
\* Variant of HandleUtterance that makes a pattern of every line, whatever
\* its labels are
HandleUtterance_AnyLabels(L0, intentName, utteranceAndEntities) ==
    Ret([addItemIfNotPresent(L0, "intents", intentName) EXCEPT
            !.patterns = Append(@, pattern(utteranceAndEntities.utterance, intentName))], <<>>)

HandleUtterance(L0, intentName, utteranceAndEntities) ==
    LET L == addItemIfNotPresent(L0, "intents", intentName)
        utterance == utteranceAndEntities.utterance
        entitiesFound == utteranceAndEntities.entities
        havePatternAnyEntity == \E i \in DOMAIN entitiesFound : entitiesFound[i].type = "patternAnyEntities"
        at == handleAtForPattern(utterance, entitiesFound, L.flatListOfEntityAndRoles)
        newPattern == pattern(at.utterance, intentName)
        resolved == [i \in DOMAIN entitiesFound |-> handleAtPrefix(entitiesFound[i], L.flatListOfEntityAndRoles)]
    IN  IF entitiesFound # <<>>
        THEN IF havePatternAnyEntity
             THEN IF \E i \in DOMAIN entitiesFound : entitiesFound[i].type # "patternAnyEntities"
                  THEN Throw(L, "INVALID_INPUT", "mix of entites with labelled values and ones without")
                  ELSE Ret(PatternEntities(
                              IF Includes(L.patterns, newPattern) THEN L
                              ELSE [L EXCEPT !.patterns = Append(@, newPattern)],
                              at.entities), <<>>)
             ELSE Then(UtteranceEntities(Ret(L, <<>>), resolved),
                       LAMBDA L1, none : AddUtterance(L1, utterance, intentName, resolved))
        ELSE IF isUtterancePattern(utterance)
        THEN Ret([L EXCEPT !.patterns = Append(@, pattern(utterance, intentName))], <<>>)
        ELSE IF \E i \in DOMAIN L.utterances :
                    L.utterances[i].text = utterance /\ L.utterances[i].intent = intentName
        THEN Ret(L, <<>>)
        ELSE Ret([L EXCEPT !.utterances =
                      Append(@, [text |-> utterance, intent |-> intentName, entities |-> <<>>])], <<>>)

-----------------------------------------------------------------------------
(* Legacy ($) entity declarations *)

(* A legacy entity is given as helpers.getRolesAndType splits its type:     *)
(* Type is the type word ("simple", a builtin type, "list=",                *)
(* "qna-alterations=", "phraselist", "phraselist interchangeable", "[",     *)
(* "/"), Roles the roles, NormalizedValue the text before '=',              *)
(* Children the text between brackets split on , or ;, Regex the type text  *)
(* of a regex definition as characters.                                     *)

handleLegacyList(L, entityName, normalizedValue, synonymsList, entityRoles) ==
    Then(VerifyAndUpdateSimpleEntityCollection(L, entityName, "List"),
         LAMBDA L1, rolesImport :
            LET roles == PushNew(entityRoles, rolesImport)
                ci == IdxByName(L1.closedLists, entityName)
                si == FindIdx(L1.closedLists[ci].subLists, LAMBDA sl : sl.canonicalForm = normalizedValue)
            IN  IF ci = 0
                THEN Ret([L1 EXCEPT !.closedLists =
                              Append(@, closedLists(entityName, <<subList(normalizedValue, synonymsList)>>, roles))],
                         roles)
                ELSE Ret([L1 EXCEPT !.closedLists[ci].subLists =
                                        IF si = 0 THEN Append(@, subList(normalizedValue, synonymsList))
                                        ELSE [@ EXCEPT ![si].list = PushNew(@, synonymsList)],
                                    !.closedLists[ci].roles = mergeRoles(@, roles)], roles))

\* One iteration of the loop of parseAndHandleEntity; Q is the QnA side
HandleEntity(L, Q, entity, loc, verbose) ==
    LET entityName == entity.Name
        entityType == entity.Type
        pEntityName == IF entityName \in {"PREBUILT", "prebuilt"} THEN entityType ELSE entityName
        withQ(r) == [L |-> r.L, err |-> r.err, ret |-> r.ret, Q |-> Q]
    IN  IF RemoveDuplicatePatternAnyEntity(L, pEntityName, entityType).err # NoErr
        THEN withQ(RemoveDuplicatePatternAnyEntity(L, pEntityName, entityType))
        ELSE
        LET pa == RemoveDuplicatePatternAnyEntity(L, pEntityName, entityType)
            L1 == pa.L
            entityRoles == PushNew(entity.Roles, pa.ret)
        IN  CASE entityType \in consolidatedList ->
                    withQ(handlePrebuiltEntity(L1, entityName, entityType, entityRoles, loc, verbose))
              [] entityType = "simple" ->
                    withQ(Ret(addItemOrRoleIfNotPresent(L1, "entities", entityName, entityRoles), entityRoles))
              [] entityType = "qna-alterations=" ->
                    IF entity.SynonymsOrPhraseList # <<>>
                    THEN [L |-> L1, err |-> NoErr, ret |-> <<>>,
                          Q |-> [Q EXCEPT !.wordAlterations =
                                     Append(@, <<entityName>> \o entity.SynonymsOrPhraseList)]]
                    ELSE withQ(Throw(L1, "SYNONYMS_NOT_A_LIST", "QnA alteration section does not have list decoration"))
              [] entityType = "list=" ->
                    withQ(handleLegacyList(L1, entityName, entity.NormalizedValue, entity.SynonymsOrPhraseList, entityRoles))
              [] IncludesPhraselist(entityType) ->
                    withQ(handlePhraseList(L1, entityName, entityType, entityRoles, entity.SynonymsOrPhraseList))
              [] entityType = "[" ->
                    withQ(handleComposite(L1, entityName, entity.Children, entityRoles, TRUE))
              [] entityType = "/" ->
                    IF entity.Regex[Len(entity.Regex)] = "/"
                    THEN withQ(handleRegExEntity(L1, entityName, entity.Regex, entityRoles))
                    \* building the diagnostic reads regExEntity.name, and no
                    \* regExEntity is in scope here
                    ELSE withQ(Throw(L1, "ReferenceError", "regExEntity is not defined"))
              [] OTHER -> withQ(Ret(L1, entityRoles))

-----------------------------------------------------------------------------
(* QnA pairs and model-info directives *)

HandleQna(Q, pair) ==
    [Q EXCEPT !.qnaList = Append(@, [id |-> 0, answer |-> pair.Answer, source |-> "custom editorial",
                                     questions |-> pair.Questions, metadata |-> pair.FilterPairs])]

\* newIntent['inherits'][p[2]] = p[3]; newIntent['inherits'][p[4]] = p[5]
Inherits(old, p) == (p[5] :> p[6]) @@ (p[3] :> p[4]) @@ old

NoInherits == [k \in {} |-> ""]

InheritInto(tbl, p) ==
    LET i == IdxByName(tbl, p[2])
    IN  IF i = 0 THEN Append(tbl, [name |-> p[2], inherits |-> Inherits(NoInherits, p)])
        ELSE [tbl EXCEPT ![i] =
                ("inherits" :> Inherits(IF "inherits" \in DOMAIN @ THEN @.inherits ELSE NoInherits, p)) @@ @]

(* A directive is given as the split of its line on the @section.key=      *)
(* expression leaves it: Parts is the number of pieces, Blank says that a   *)
(* piece is empty, Section and Key are pieces 1 and 2, Props is piece 3     *)
(* split on : or ;.                                                         *)
\* out is what the handler writes to stdout: a directive whose inherits value
\* does not split in six is reported whatever verbose is
HandleModelInfo(L, Q, modelInfo, verbose) ==
    LET skipped(msg, always) == [L |-> L, Q |-> Q, out |-> IF always \/ verbose THEN <<msg>> ELSE <<>>]
        done(L1, Q1) == [L |-> L1, Q |-> Q1, out |-> <<>>]
    IN  IF modelInfo.Parts # 4 THEN skipped("Invalid model info found", FALSE)
        ELSE IF modelInfo.Blank THEN skipped("Invalid model info found", FALSE)
        ELSE CASE modelInfo.Section = "app" -> done([L EXCEPT ![modelInfo.Key] = modelInfo.Props[1]], Q)
               [] modelInfo.Section = "kb" -> done(L, [Q EXCEPT ![modelInfo.Key] = modelInfo.Props[1]])
               [] modelInfo.Section \in {"intent", "entity"} /\ modelInfo.Key # "inherits" ->
                    skipped("Invalid " \o modelInfo.Section \o " inherits information found", FALSE)
               [] modelInfo.Section \in {"intent", "entity"} /\ Len(modelInfo.Props) # 6 ->
                    skipped("Invalid " \o modelInfo.Section \o " inherits information found", TRUE)
               [] modelInfo.Section = "intent" ->
                    done([L EXCEPT !.intents = InheritInto(@, modelInfo.Props)], Q)
               [] modelInfo.Section = "entity" ->
                    done([L EXCEPT !.entities = InheritInto(@, modelInfo.Props)], Q)

-----------------------------------------------------------------------------
(* The declarations a file is made of *)

Names == {"a", "b"}

NewEntity(name, type, roles, compositeDefinition, listBody, regexDefinition) ==
    [Name |-> name, Type |-> type, Roles |-> roles, CompositeDefinition |-> compositeDefinition,
     ListBody |-> listBody, RegexDefinition |-> regexDefinition]

Header(v) == [header |-> TRUE, items |-> <<v>>]
Synonyms(vs) == [header |-> FALSE, items |-> vs]

\* @ simple a hasRoles r, @ patternany a hasRoles r, @ a hasRoles s, @ list list
NewPlain ==
    {NewEntity(n, "simple", rs, <<>>, <<>>, <<>>) : n \in Names, rs \in {<<>>, <<"r">>, <<"s">>, <<"a">>}}
    \cup {NewEntity(n, "patternany", rs, <<>>, <<>>, <<>>) : n \in Names, rs \in {<<>>, <<"r">>}}
    \cup {NewEntity("a", "simple", <<"r", "r">>, <<>>, <<>>, <<>>),
          NewEntity("a", "", <<"s">>, <<>>, <<>>, <<>>),
          NewEntity("list", "simple", <<>>, <<>>, <<>>, <<>>),
          NewEntity("list", "list", <<>>, <<>>, <<>>, <<>>)}

\* @ composite a = [x, y], @ list a = - one: - two, @ regex a = /p/,
\* @ phraselist a = - v, @ prebuilt number
NewStructured ==
    {NewEntity("a", "composite", <<>>, ch, <<>>, <<>>) : ch \in {<<"x", "y">>, <<"y", "x">>, <<"z">>}}
    \cup {NewEntity("a", "composite", <<"r">>, <<>>, <<>>, <<>>),
          NewEntity("a", "list", <<>>, <<>>, <<Header("one"), Synonyms(<<"two">>)>>, <<>>),
          NewEntity("a", "list", <<"r">>, <<>>, <<>>, <<>>),
          NewEntity("a", "regex", <<>>, <<>>, <<>>, <<"/", "p", "/">>),
          NewEntity("a", "regex", <<>>, <<>>, <<>>, <<"/", "q", "/">>),
          NewEntity("a", "phraselist", <<>>, <<>>, <<<<<<"v">>>>>>, <<>>),
          NewEntity("number", "prebuilt", <<>>, <<>>, <<>>, <<>>)}

Label(entity, at, role, type, value, startPos, endPos) ==
    [entity |-> entity, at |-> at, role |-> role, type |-> type, value |-> value,
     startPos |-> startPos, endPos |-> endPos]

\* {a}, {a:r}, {@r}
Placeholder(entity, at, role) == Label(entity, at, role, "patternAnyEntities", "", 0, 0)

PlaceholderToken(l) ==
    IF l.role = "" THEN <<IF l.at THEN "{@" ELSE "{", l.entity, "}">>
    ELSE <<IF l.at THEN "{@" ELSE "{", l.entity, ":", l.role, "}">>

\* {a=v}, {a:r=v} and a label whose value is blank
Labelled(entity, at, role, value) ==
    IF value = "" THEN Label(entity, at, role, "entities", "", 1, 0)
    ELSE Label(entity, at, role, "entities", value, 0, 0)

\* The labels of a line: a is labelled with role r or none, b also with role a
LabelRoles(n) == IF n = "a" THEN {"", "r"} ELSE {"", "r", "a"}

Line(text, labels) == [utterance |-> text, entities |-> labels]

PatternLine(labels) == Line(<<<<"hi">>>> \o [i \in DOMAIN labels |-> PlaceholderToken(labels[i])], labels)

\* - hi {a:r}
PatternLines == {PatternLine(<<Placeholder(n, FALSE, r)>>) : n \in Names, r \in {"", "r"}}

\* - hi {a:r=v}, - hi
UtteranceLines ==
    UNION {{Line(<<<<"hi">>, <<"v">>>>, <<Labelled(n, FALSE, r, "v")>>) : r \in LabelRoles(n)} : n \in Names}
    \cup {Line(<<<<"hi">>>>, <<>>)}

IntentNames == {"i"}

Entity(name, type, roles, normalizedValue, children, regex, synonymsOrPhraseList) ==
    [Name |-> name, Type |-> type, Roles |-> roles, NormalizedValue |-> normalizedValue,
     Children |-> children, Regex |-> regex, SynonymsOrPhraseList |-> synonymsOrPhraseList]

\* $a:simple Roles=r, $PREBUILT:number
LegacyPlain ==
    {Entity(n, "simple", <<>>, "", <<>>, <<>>, <<>>) : n \in Names}
    \cup {Entity("a", "simple", <<"r">>, "", <<>>, <<>>, <<>>),
          Entity("PREBUILT", "number", <<>>, "", <<>>, <<>>, <<>>)}

\* $a:one= - two, $a:[x, y], $a:/p/, $a:phraseList - v
LegacyStructured ==
    {Entity("a", "list=", <<>>, "one", <<>>, <<>>, <<"two">>),
     Entity("a", "[", <<>>, "", <<"x", "y">>, <<>>, <<>>),
     Entity("a", "[", <<>>, "", <<"z">>, <<>>, <<>>),
     Entity("a", "/", <<>>, "", <<>>, <<"/", "p", "/">>, <<>>)}

LegacyPhraseList == {Entity("a", "phraselist", <<>>, "", <<>>, <<>>, <<<<<<"v">>>>>>)}

QnaPairs == {[Questions |-> <<"q">>, Answer |-> "answer", FilterPairs |-> <<>>]}

ModelInfo(parts, blank, section, key, props) ==
    [Parts |-> parts, Blank |-> blank, Section |-> section, Key |-> key, Props |-> props]

\* @entity.inherits = name:a;k1:v1;k2:v2
ModelInfos ==
    {ModelInfo(4, FALSE, "entity", "inherits", <<"name", "a", "k1", "v1", "k2", "v2">>),
     ModelInfo(4, FALSE, "intent", "inherits", <<"name", "i", "k1", "v1", "k2", "v2">>),
     ModelInfo(4, FALSE, "app", "name", <<"app1">>),
     ModelInfo(1, FALSE, "", "", <<>>)}

-----------------------------------------------------------------------------
(* Nested labels of an utterance *)

(* A parserEntity has the fields entity, role and value; an item of value   *)
(* is a character, [char |-> c], or a parserEntity. startPos and endPos are *)
(* taken as defined.                                                        *)
isParserEntity(item) == "value" \in DOMAIN item

RECURSIVE trimStart(_)
trimStart(chars) ==
    IF chars # <<>> /\ Head(chars) = " " THEN trimStart(Tail(chars)) ELSE chars

RECURSIVE trimEnd(_)
trimEnd(chars) ==
    IF chars # <<>> /\ chars[Len(chars)] = " " THEN trimEnd(SubSeq(chars, 1, Len(chars) - 1)) ELSE chars

\* String.prototype.trim
trim(chars) == trimEnd(trimStart(chars))

\* A blank moves the offset unless it is the first or the last item
BlankCounts(value, idx) == idx # 1 /\ idx # Len(value)

RECURSIVE flattenLists(_, _, _)
RECURSIVE FlattenItems(_, _, _, _)

\* list.value.forEach: st holds retValue, offset and retObj.entitiesFound
FlattenItems(value, idx, st, parentIdx) ==
    IF idx > Len(value) THEN st
    ELSE LET item == value[idx]
         IN  IF isParserEntity(item)
             THEN LET r == flattenLists(item, st.entitiesFound, st.offset + parentIdx)
                  IN  FlattenItems(value, idx + 1,
                                   [retValue |-> st.retValue \o r.ret,
                                    offset |-> st.offset + Len(r.ret),
                                    entitiesFound |-> r.entitiesFound], parentIdx)
             ELSE FlattenItems(value, idx + 1,
                               [retValue |-> Append(st.retValue, item.char),
                                offset |-> IF item.char = " " /\ ~BlankCounts(value, idx)
                                           THEN st.offset ELSE st.offset + 1,
                                entitiesFound |-> st.entitiesFound], parentIdx)

\* ret is the value returned, entitiesFound is retObj.entitiesFound after the call
flattenLists(l, entitiesFound, parentIdx) ==
    LET st == FlattenItems(l.value, 1, [retValue |-> <<>>, offset |-> 0, entitiesFound |-> entitiesFound],
                           parentIdx)
        placeholder == IF l.role # "" THEN <<"{", l.entity, ":", l.role, "}">> ELSE <<"{", l.entity, "}">>
        retValue == trim(IF l.value = <<>> THEN placeholder ELSE st.retValue)
    IN  [ret |-> retValue,
         entitiesFound |-> Append(st.entitiesFound,
                                  [startPos |-> parentIdx, entity |-> l.entity, value |-> retValue,
                                   endPos |-> parentIdx + Len(retValue) - 1,
                                   type |-> IF l.value = <<>> THEN "patternAnyEntities" ELSE "entities",
                                   role |-> l.role])]

NoList == [entity |-> "", role |-> "", value |-> <<>>]

NoRetObj == [ret |-> <<>>, entitiesFound |-> <<>>, parentIdx |-> 0, called |-> FALSE]

-----------------------------------------------------------------------------
(* The parse *)

\* parseLuAndQnaWithAntlr: the check of the syntax diagnostics and the section
\* loops, in the order they are run
Sections == <<"syntax", "reference", "v2", "intent", "entity", "qna", "modelinfo">>

SectionRank(sect) == CHOOSE k \in DOMAIN Sections : Sections[k] = sect

\* Variant of Reached in which the loops interleave
Reached_AnyOrder(sect) == phase # "syntax"

\* The loop of sect handles an item after the syntax check has passed and
\* the loops before it are over
Reached(sect) == phase # "syntax" /\ SectionRank(phase) <= SectionRank(sect)

(* The front end lists the declarations of a section in source order: the   *)
(* next declaration of a section lies below the ones of that section        *)
(* handled so far.  With free = FALSE the file is laid out section by       *)
(* section.                                                                 *)
SourceLines(sect, free) ==
    IF free
    THEN {l \in 1..MaxDecls :
            /\ \A k \in DOMAIN applied : applied[k].line # l
            /\ \A k \in DOMAIN applied : applied[k].sect = sect => applied[k].line < l}
    ELSE {Len(applied) + 1}

\* A declaration of section sect is handled: the parse is in the loop of
\* sect, and over when the handler throws.  The registry, the knowledge base
\* and the exception are the handler's outcome.
Recorded(sect, decl, free, L, Q, e) ==
    /\ err = NoErr
    /\ Reached(sect)
    /\ Len(applied) < MaxDecls
    /\ \E l \in SourceLines(sect, free) :
            applied' = Append(applied, [line |-> l, sect |-> sect, decl |-> decl])
    /\ LUIS' = L
    /\ qna' = Q
    /\ err' = e
    /\ phase' = sect
    /\ prev' = LUIS
    /\ UNCHANGED <<log, locale, errors, list, retObj>>

\* The handlers of the entity, intent, QnA and model-info sections ask for
\* no URI and list no file
Handled(sect, decl, free, L, Q, e) ==
    /\ Recorded(sect, decl, free, L, Q, e)
    /\ UNCHANGED <<requests, additionalFilesToParse, stdout>>

\* Variant of SyntaxCheck that lets the section loops run whatever the
\* diagnostics are
SyntaxCheck_Lenient ==
    /\ err = NoErr
    /\ phase = "syntax"
    /\ phase' = "reference"
    /\ UNCHANGED <<LUIS, qna, err, prev, applied, log, locale, errors, requests, additionalFilesToParse, stdout, list, retObj>>

\* The diagnostics of the syntax resource are examined before any section
\* loop: one of severity ERROR ends the parse with INVALID_LINE.
SyntaxCheck ==
    /\ err = NoErr
    /\ phase = "syntax"
    /\ IF Includes(errors, "ERROR")
       THEN err' = Exc("INVALID_LINE", "syntax errors") /\ phase' = phase
       ELSE err' = err /\ phase' = "reference"
    /\ UNCHANGED <<LUIS, qna, prev, applied, log, locale, errors, requests, additionalFilesToParse, stdout, list, retObj>>

\* String.prototype.replace(tok, ''): the first occurrence is removed
RemoveFirst(s, tok) ==
    LET i == FindIdx(s, LAMBDA t : t = tok)
    IN  IF i = 0 THEN s ELSE RemoveAt(s, i)

\* url.parse(linkValue).host: "" when the link names no host
HostOf(linkValue) ==
    IF linkValue # <<>> /\ linkValue[1] = "http://h" THEN "h" ELSE ""

qnaFile(fileUri, fileName) == [fileUri |-> fileUri, fileName |-> fileName]

fileToParse(filePath) == [filePath |-> filePath, includeInCollate |-> TRUE]

\* What fetch(linkValue, {method: 'HEAD'}) can come to: it throws, or it
\* gives a response that is not ok, or an ok response with the content type
\* named, or an ok response without a content-type header
Responses == {"throws", "not ok", "text/html", "application/pdf", "no content-type"}

\* The body of the loop of parseAndHandleReference for one import
HandleReference_Unverified(Q, files, asked, luImport, response) ==
    LET linkValueText == RemoveFirst(RemoveFirst(luImport.Description, "["), "]")
        linkValue == RemoveFirst(RemoveFirst(luImport.Path, "("), ")")
    IN  IF HostOf(linkValue) # ""
        THEN [Q |-> [Q EXCEPT !.urls = Append(@, linkValue)], files |-> files,
              asked |-> Append(asked, linkValue), err |-> NoErr]
        ELSE [Q |-> Q, files |-> Append(files, fileToParse(linkValue)),
              asked |-> asked, err |-> NoErr]

HandleReference(Q, files, asked, luImport, response) ==
    LET linkValueText == RemoveFirst(RemoveFirst(luImport.Description, "["), "]")
        linkValue == RemoveFirst(RemoveFirst(luImport.Path, "("), ")")
        fetched == Append(asked, linkValue)
    IN  IF HostOf(linkValue) # ""
        THEN IF response \in {"throws", "not ok"}
             THEN [Q |-> Q, files |-> files, asked |-> fetched,
                   err |-> Exc("INVALID_URI", "URI appears to be invalid")]
             ELSE IF response = "no content-type"
             THEN [Q |-> Q, files |-> files, asked |-> fetched,
                   err |-> Exc("TypeError", "Cannot read properties of null")]
             ELSE IF response # "text/html"
             THEN [Q |-> [Q EXCEPT !.files = Append(@, qnaFile(linkValue, linkValueText))],
                   files |-> files, asked |-> fetched, err |-> NoErr]
             ELSE [Q |-> [Q EXCEPT !.urls = Append(@, linkValue)],
                   files |-> files, asked |-> fetched, err |-> NoErr]
        ELSE [Q |-> Q, files |-> Append(files, fileToParse(linkValue)),
              asked |-> asked, err |-> NoErr]

\* The responses that matter to an import: a link without a host is not fetched
ResponsesTo(luImport) ==
    IF HostOf(RemoveFirst(RemoveFirst(luImport.Path, "("), ")")) # "" THEN Responses ELSE {"none"}

ReferenceStep(D, free) ==
    \E luImport \in D :
        \E response \in ResponsesTo(luImport) :
            LET r == HandleReference(qna, additionalFilesToParse, requests, luImport, response)
            IN  /\ Recorded("reference", [import |-> luImport, response |-> response],
                            free, LUIS, r.Q, r.err)
                /\ requests' = r.asked
                /\ additionalFilesToParse' = r.files
                /\ UNCHANGED stdout

NewEntityStep(D, free) ==
    \E entity \in D :
        LET r == HandleNewEntity(LUIS, entity, locale, log)
        IN  Handled("v2", entity, free, r.L, qna, r.err)

\* A line of one of the intents I
IntentsStep(I, D, free) ==
    \E intentName \in I, line \in D :
        LET r == HandleUtterance(LUIS, intentName, line)
        IN  Handled("intent", [Name |-> intentName, line |-> line], free, r.L, qna, r.err)

IntentStep(D, free) == IntentsStep(IntentNames, D, free)

EntityStep(D, free) ==
    \E entity \in D :
        LET r == HandleEntity(LUIS, qna, entity, locale, log)
        IN  Handled("entity", entity, free, r.L, r.Q, r.err)

QnaStep(D, free) ==
    \E pair \in D : Handled("qna", pair, free, LUIS, HandleQna(qna, pair), NoErr)

ModelInfoStep(D, free) ==
    \E modelInfo \in D :
        LET r == HandleModelInfo(LUIS, qna, modelInfo, log)
        IN  /\ Recorded("modelinfo", modelInfo, free, r.L, r.Q, NoErr)
            /\ stdout' = stdout \o r.out
            /\ UNCHANGED <<requests, additionalFilesToParse>>

LogChoices == {FALSE}

LocaleChoices == {""}

\* A syntax resource without diagnostics
NoDiagnostics == {<<>>}

\* parseFile with a new parserObj, for a resource whose diagnostics are in E
Start(E) ==
    /\ LUIS = EmptyLUIS
    /\ qna = EmptyQna
    /\ phase = "syntax"
    /\ err = NoErr
    /\ prev = EmptyLUIS
    /\ applied = <<>>
    /\ errors \in E
    /\ requests = <<>>
    /\ additionalFilesToParse = <<>>
    /\ stdout = <<>>
    /\ list = NoList
    /\ retObj = NoRetObj

Init ==
    /\ Start(NoDiagnostics)
    /\ log \in LogChoices
    /\ locale \in LocaleChoices

Next ==
    \/ SyntaxCheck
    \/ NewEntityStep(NewPlain, FALSE)
    \/ NewEntityStep(NewStructured, FALSE)
    \/ IntentStep(PatternLines, FALSE)
    \/ IntentStep(UtteranceLines, FALSE)
    \/ EntityStep(LegacyPlain, FALSE)
    \/ EntityStep(LegacyStructured, FALSE)
    \/ EntityStep(LegacyPhraseList, FALSE)
    \/ QnaStep(QnaPairs, FALSE)
    \/ ModelInfoStep(ModelInfos, FALSE)

Spec == Init /\ [][Next]_vars

-----------------------------------------------------------------------------
(* A file whose sections are interleaved in the source *)

OrderNewEntities == {NewEntity(n, "simple", <<>>, <<>>, <<>>, <<>>) : n \in Names}

OrderLines == {Line(<<<<"hi">>>>, <<>>)}

OrderEntities == {Entity("a", "simple", <<>>, "", <<>>, <<>>, <<>>)}

OrderModelInfos == {ModelInfo(4, FALSE, "app", "name", <<"app1">>)}

NextOrder ==
    \/ SyntaxCheck
    \/ NewEntityStep(OrderNewEntities, TRUE)
    \/ IntentStep(OrderLines, TRUE)
    \/ EntityStep(OrderEntities, TRUE)
    \/ QnaStep(QnaPairs, TRUE)
    \/ ModelInfoStep(OrderModelInfos, TRUE)

SpecOrder == Init /\ [][NextOrder]_vars

-----------------------------------------------------------------------------
(* A file with diagnostics and imports ahead of its declarations *)

Diagnostics == {<<>>, <<"WARN">>, <<"ERROR">>, <<"WARN", "ERROR">>}

luImport(Description, Path) == [Description |-> Description, Path |-> Path]

\* [faq](http://h/faq) and [more](./more.lu)
Imports ==
    {luImport(<<"[", "faq", "]">>, <<"(", "http://h", "/faq", ")">>),
     luImport(<<"[", "more", "]">>, <<"(", "./more.lu", ")">>)}

\* @ simple a, @ simple s1 sr1,
\* @ list l1 hasRoles lr1,lr2 = - one : - two - three - four : - five - six,
\* @ list l1 = - two, @ list l1 = - one : - two, seven - one : - seven,
\* @ patternany b hasRoles r, @ patternany b hasRoles s, @ patternany b hasRoles r,t
FrontNewEntities ==
    {NewEntity("a", "simple", <<>>, <<>>, <<>>, <<>>),
     NewEntity("s1", "simple", <<"sr1">>, <<>>, <<>>, <<>>),
     NewEntity("l1", "list", <<"lr1", "lr2">>, <<>>,
               <<Header("one"), Synonyms(<<"two">>), Synonyms(<<"three">>),
                 Header("four"), Synonyms(<<"five">>), Synonyms(<<"six">>)>>, <<>>),
     NewEntity("l1", "list", <<>>, <<>>, <<Synonyms(<<"two">>)>>, <<>>),
     NewEntity("l1", "list", <<>>, <<>>,
               <<Header("one"), Synonyms(<<"two", "seven">>),
                 Header("one"), Synonyms(<<"seven">>)>>, <<>>)}
    \cup {NewEntity("b", "patternany", rs, <<>>, <<>>, <<>>) : rs \in {<<"r">>, <<"s">>, <<"r", "t">>}}

\* $a:simple, $l1:one= - two - two, $l1:one= - two - eight
FrontEntities ==
    OrderEntities
    \cup {Entity("l1", "list=", <<>>, "one", <<>>, <<>>, syn) :
            syn \in {<<"two", "two">>, <<"two", "eight">>}}

\* - hi, - hi {b}, - hi {a} {b=v}, - hi {a=v} {b}
FrontLines ==
    OrderLines
    \cup {PatternLine(<<Placeholder("b", FALSE, "")>>)}
    \cup {Line(<<<<"hi">>, PlaceholderToken(Placeholder(p[1], FALSE, "")), <<"v">>>>,
                <<Placeholder(p[1], FALSE, ""), Labelled(p[2], FALSE, "", "v")>>) :
            p \in {<<"a", "b">>, <<"b", "a">>}}

InitFront ==
    /\ Start(Diagnostics)
    /\ log \in BOOLEAN
    /\ locale \in LocaleChoices

NextFront ==
    \/ SyntaxCheck
    \/ ReferenceStep(Imports, FALSE)
    \/ NewEntityStep(FrontNewEntities, FALSE)
    \/ IntentStep(FrontLines, FALSE)
    \/ EntityStep(FrontEntities, FALSE)
    \/ QnaStep(QnaPairs, FALSE)
    \/ ModelInfoStep(OrderModelInfos, FALSE)

SpecFront == InitFront /\ [][NextFront]_vars

-----------------------------------------------------------------------------
(* A file of phrase lists, regular expressions and prebuilt entities, parsed *)
(* for any locale with or without logging                                    *)

\* @ phraselist a = - v, @ phraselist a(interchangeable) = - v,
\* @ phraselist a = - vw, @ phraselist a hasRoles r = - v,
\* @ regex a = /p/, @ regex a = /q/, @ regex a = //, @ regex a,
\* @ regex a hasRoles r = /p/,
\* @ prebuilt number, @ prebuilt foo
ValueNewEntities ==
    {NewEntity(n, "phraselist", <<>>, <<>>, <<<<v>>>>, <<>>) :
        n \in {"a", "a(interchangeable)"}, v \in {<<"v">>, <<"v", "w">>}}
    \cup {NewEntity("a", "phraselist", <<"r">>, <<>>, <<<<<<"v">>>>>>, <<>>)}
    \cup {NewEntity("a", "regex", <<>>, <<>>, <<>>, re) :
            re \in {<<"/", "p", "/">>, <<"/", "q", "/">>, <<"/", "/">>, <<>>}}
    \cup {NewEntity("a", "regex", <<"r">>, <<>>, <<>>, <<"/", "p", "/">>)}
    \cup {NewEntity(t, "prebuilt", <<>>, <<>>, <<>>, <<>>) : t \in {"number", "foo"}}

\* $a:phraseList - v, $a:phraseList interchangeable - v, $a:phraseList Roles=r - v,
\* $a:/p/, $a:/q/, $a://, $a:/p, $PREBUILT:number, $PREBUILT:foo, $number:simple Roles=r
ValueEntities ==
    {Entity("a", t, <<>>, "", <<>>, <<>>, <<<<<<"v">>>>>>) :
        t \in {"phraselist", "phraselist interchangeable"}}
    \cup {Entity("a", "phraselist", <<"r">>, "", <<>>, <<>>, <<<<<<"v">>>>>>)}
    \cup {Entity("a", "/", <<>>, "", <<>>, re, <<>>) :
            re \in {<<"/", "p", "/">>, <<"/", "q", "/">>, <<"/", "/">>, <<"/", "p">>}}
    \cup {Entity("PREBUILT", t, <<>>, "", <<>>, <<>>, <<>>) : t \in {"number", "foo"}}
    \cup {Entity("number", "simple", <<"r">>, "", <<>>, <<>>, <<>>)}

Locales == {"", "zh-cn"}

InitValues ==
    /\ Start(NoDiagnostics)
    /\ log \in BOOLEAN
    /\ locale \in Locales

NextValues ==
    \/ SyntaxCheck
    \/ NewEntityStep(ValueNewEntities, FALSE)
    \/ EntityStep(ValueEntities, FALSE)

SpecValues == InitValues /\ [][NextValues]_vars

-----------------------------------------------------------------------------
(* A file whose intent lines label the entities it declares *)

\* @ simple a, @ composite a = [z], @ list a, @ regex a = /p/,
\* @ phraselist a = - v, @ patternany a hasRoles r, @ prebuilt number
LabelNewEntities ==
    {NewEntity("a", "simple", <<>>, <<>>, <<>>, <<>>),
     NewEntity("a", "composite", <<>>, <<"z">>, <<>>, <<>>),
     NewEntity("a", "list", <<>>, <<>>, <<>>, <<>>),
     NewEntity("a", "regex", <<>>, <<>>, <<>>, <<"/", "p", "/">>),
     NewEntity("a", "phraselist", <<>>, <<>>, <<<<<<"v">>>>>>, <<>>),
     NewEntity("a", "patternany", <<"r">>, <<>>, <<>>, <<>>),
     NewEntity("number", "prebuilt", <<>>, <<>>, <<>>, <<>>)}

\* - hi {a=v}, - hi {a:r=v}, - hi {number=v}, - hi {number:r=v}, - hi {a=},
\* - hi {a:r=v} {a=}, - hi, - hi (x), - hi {a}, - hi {@a}, - hi {@r}, - yo {a=v}
LabelLines ==
    {Line(<<<<"hi">>, <<"v">>>>, <<Labelled(n, FALSE, r, "v")>>) : n \in {"a", "number"}, r \in {"", "r"}}
    \cup {Line(<<<<"hi">>>>, <<Labelled("a", FALSE, "", "")>>),
          Line(<<<<"hi">>, <<"v">>>>, <<Labelled("a", FALSE, "r", "v"), Labelled("a", FALSE, "", "")>>),
          Line(<<<<"hi">>>>, <<>>),
          Line(<<<<"hi">>, <<"(", "x", ")">>>>, <<>>),
          PatternLine(<<Placeholder("a", FALSE, "")>>)}
    \cup {PatternLine(<<Placeholder(x, TRUE, "")>>) : x \in {"a", "r"}}
    \cup {Line(<<<<"yo">>, <<"v">>>>, <<Labelled("a", FALSE, "", "v")>>)}

\* $a:blah, a type no branch of the entity loop handles
LabelEntities == {Entity("a", "blah", <<>>, "", <<>>, <<>>, <<>>)}

\* # i, # j
LabelIntents == {"i", "j"}

InitLabels ==
    /\ Start(NoDiagnostics)
    /\ log \in LogChoices
    /\ locale \in LocaleChoices

NextLabels ==
    \/ SyntaxCheck
    \/ NewEntityStep(LabelNewEntities, FALSE)
    \/ IntentsStep(LabelIntents, LabelLines, FALSE)
    \/ EntityStep(LegacyStructured, FALSE)
    \/ EntityStep(LegacyPhraseList, FALSE)
    \/ EntityStep(LabelEntities, FALSE)

SpecLabels == InitLabels /\ [][NextLabels]_vars

-----------------------------------------------------------------------------
(* A file that ends with model-info directives, well-formed or not *)

\* a line without directive, @app. = x, @intent.inherits = name:i;k1:v1,
\* @entity.inherits = name:a;k1:v1, @intent.description = x,
\* @intent.inherits = name:i;k1:v1;k2:v2, @entity.inherits = name:a;k1:v1;k2:v2,
\* @app.name = app1
InfoModelInfos ==
    {ModelInfo(1, FALSE, "", "", <<>>),
     ModelInfo(4, TRUE, "app", "", <<"x">>),
     ModelInfo(4, FALSE, "intent", "inherits", <<"name", "i", "k1", "v1">>),
     ModelInfo(4, FALSE, "entity", "inherits", <<"name", "a", "k1", "v1">>),
     ModelInfo(4, FALSE, "intent", "description", <<"x">>),
     ModelInfo(4, FALSE, "intent", "inherits", <<"name", "i", "k1", "v1", "k2", "v2">>),
     ModelInfo(4, FALSE, "entity", "inherits", <<"name", "a", "k1", "v1", "k2", "v2">>),
     ModelInfo(4, FALSE, "app", "name", <<"app1">>)}

InitInfos ==
    /\ Start(NoDiagnostics)
    /\ log \in BOOLEAN
    /\ locale \in LocaleChoices

NextInfos ==
    \/ SyntaxCheck
    \/ NewEntityStep(LabelNewEntities, FALSE)
    \/ IntentStep(OrderLines, FALSE)
    \/ ModelInfoStep(InfoModelInfos, FALSE)

SpecInfos == InitInfos /\ [][NextInfos]_vars

-----------------------------------------------------------------------------
(* flattenLists on its own: one call on a label with nested labels *)

MaxValue == 3

MaxNested == 2

ListChars == {[char |-> "a"], [char |-> " "]}

SeqsUpTo(S, n) == UNION {[1..k -> S] : k \in 0..n}

\* Labels inside a label: {y=...}, and {y} when the value is empty
NestedLists == {[entity |-> "y", role |-> "", value |-> v] : v \in SeqsUpTo(ListChars, MaxNested)}

\* The outer label {x=...} with at least one item
Lists == {[entity |-> "x", role |-> "", value |-> v] :
              v \in SeqsUpTo(ListChars \cup NestedLists, MaxValue) \ {<<>>}}

ParentIdxs == {0, 2}

InitFlatten ==
    /\ Start(NoDiagnostics)
    /\ log = FALSE
    /\ locale \in LocaleChoices

FlattenCall ==
    /\ ~retObj.called
    /\ \E l \in Lists, parentIdx \in ParentIdxs :
           LET r == flattenLists(l, <<>>, parentIdx)
           IN  /\ list' = l
               /\ retObj' = [ret |-> r.ret, entitiesFound |-> r.entitiesFound,
                              parentIdx |-> parentIdx, called |-> TRUE]
    /\ UNCHANGED <<LUIS, qna, phase, err, prev, applied, log, locale, errors, requests,
                   additionalFilesToParse, stdout>>

NextFlatten == FlattenCall

SpecFlatten == InitFlatten /\ [][NextFlatten]_vars

-----------------------------------------------------------------------------
(* Properties *)

Range(seq) == {seq[i] : i \in DOMAIN seq}

\* A declaration has been handled: LUIS and err are its outcome, prev the
\* registry it found.
Stepped == applied # <<>>

Last == applied[Len(applied)]

Before == applied[Len(applied) - 1]

\* The same declaration has been handled twice in succession
Repeated ==
    /\ Len(applied) >= 2
    /\ Last.sect \in {"v2", "entity"}
    /\ Before.sect = Last.sect
    /\ Before.decl = Last.decl

AllKindTables == KindTables \o <<"patternAnyEntities">>

Records(L) ==
    L.entities \o L.composites \o L.closedLists \o L.regex_entities \o L.prebuiltEntities
        \o L.patternAnyEntities

RolesOf(record) == IF "roles" \in DOMAIN record THEN Range(record.roles) ELSE {}

\* The roles a table holds for a name
TableRoles(tbl, nm) == UNION {RolesOf(tbl[i]) : i \in {j \in DOMAIN tbl : tbl[j].name = nm}}

\* The type a new-style declaration is handled under
DeclaredType(L, entity) == IF entity.Type = "" THEN getEntityType(entity.Name, L) ELSE entity.Type

\* C1: handling the same entity declaration twice in succession succeeds, and
\* the entity's roles, in the flat index and in every kind table, are after
\* the second declaration what they were after the first.
C1_RepeatedDeclarationKeepsRoles ==
    Repeated =>
        /\ err = NoErr
        /\ TableRoles(LUIS.flatListOfEntityAndRoles, Last.decl.Name)
              = TableRoles(prev.flatListOfEntityAndRoles, Last.decl.Name)
        /\ \A k \in DOMAIN AllKindTables :
              TableRoles(LUIS[AllKindTables[k]], Last.decl.Name)
                  = TableRoles(prev[AllKindTables[k]], Last.decl.Name)

\* C2: as long as every declaration has been handled without error, no name
\* is held by more than one of the tables of simple, list, composite, regex,
\* prebuilt and pattern-any entities.
C2_OneKindTablePerName ==
    err = NoErr =>
        \A k1, k2 \in DOMAIN AllKindTables :
            k1 # k2 => \A i \in DOMAIN LUIS[AllKindTables[k1]] :
                            ~HasName(LUIS[AllKindTables[k2]], LUIS[AllKindTables[k1]][i].name)

\* The flat index holds the name of the declaration under another type
HeldUnderOtherKind(L, entity) ==
    \E i \in DOMAIN L.flatListOfEntityAndRoles :
        /\ L.flatListOfEntityAndRoles[i].name = entity.Name
        /\ L.flatListOfEntityAndRoles[i].type # DeclaredType(L, entity)

\* C3: a new-style declaration of a name that the flat index holds under a
\* different kind ends the parse with an INVALID_INPUT exception, the
\* duplicate-definition one unless the name is also the name of its own type,
\* and leaves the whole registry, flat index and kind tables, as it was.
C3_DuplicateNameRejected ==
    (Stepped /\ Last.sect = "v2" /\ HeldUnderOtherKind(prev, Last.decl)) =>
        /\ err.code = "INVALID_INPUT"
        /\ Last.decl.Name # DeclaredType(prev, Last.decl) => err.msg = "Entity names must be unique"
        /\ LUIS = prev

C3_Witness ==
    /\ Stepped
    /\ Last.sect = "v2"
    /\ HeldUnderOtherKind(prev, Last.decl)
    /\ prev.entities # <<>>
    /\ err.msg = "Entity names must be unique"

\* The declaration lists the name of another entity of the flat index as a role
ListsNameOfOther(L, entity) ==
    \E i \in DOMAIN L.flatListOfEntityAndRoles :
        /\ L.flatListOfEntityAndRoles[i].name # entity.Name
        /\ Includes(entity.Roles, L.flatListOfEntityAndRoles[i].name)

\* The name of the declaration is a role of another entity of the flat index
NamedAsRoleOfOther(L, entity) ==
    \E i \in DOMAIN L.flatListOfEntityAndRoles :
        /\ L.flatListOfEntityAndRoles[i].name # entity.Name
        /\ Includes(L.flatListOfEntityAndRoles[i].roles, entity.Name)

\* The declaration lists a role that another entity of the flat index holds
ListsRoleOfOther(L, entity) ==
    \E i \in DOMAIN L.flatListOfEntityAndRoles :
        /\ L.flatListOfEntityAndRoles[i].name # entity.Name
        /\ \E k \in DOMAIN entity.Roles : Includes(L.flatListOfEntityAndRoles[i].roles, entity.Roles[k])

\* C4: a new-style declaration that lists the name of another declared entity
\* as a role, whose name is a role of another declared entity, or that lists
\* a role another declared entity holds, ends the parse with an INVALID_INPUT
\* exception and leaves the flat index, and the rest of the registry, as it was.
C4_RoleCollisionRejected ==
    (/\ Stepped
     /\ Last.sect = "v2"
     /\ \/ ListsNameOfOther(prev, Last.decl)
        \/ NamedAsRoleOfOther(prev, Last.decl)
        \/ ListsRoleOfOther(prev, Last.decl)) =>
        /\ err.code = "INVALID_INPUT"
        /\ LUIS.flatListOfEntityAndRoles = prev.flatListOfEntityAndRoles
        /\ LUIS = prev

C4_Witness ==
    /\ Stepped
    /\ Last.sect = "v2"
    /\ Last.decl.Name = "b"
    /\ Last.decl.Roles = <<"a">>
    /\ ListsNameOfOther(prev, Last.decl)
    /\ err.msg = "Roles must be unique across entity types"
    /\ LUIS = prev

\* C5: as long as every declaration has been handled without error, no role
\* of a record of a kind table is the name or a role of a record of another
\* name.
C5_RolesApartFromOtherEntities ==
    err = NoErr =>
        \A i, j \in DOMAIN Records(LUIS) :
            Records(LUIS)[i].name # Records(LUIS)[j].name =>
                /\ Records(LUIS)[j].name \notin RolesOf(Records(LUIS)[i])
                /\ RolesOf(Records(LUIS)[i]) \cap RolesOf(Records(LUIS)[j]) = {}

\* C6 as the specification words it: of two declarations handled, the one
\* handled first is the one that stands higher in the source.
C6_HandledInSourceOrder ==
    \A i, j \in DOMAIN applied : i < j => applied[i].line < applied[j].line

\* C6: the declarations are handled section by section, new-style entities,
\* then intent lines, then legacy entities, then QnA pairs, then model-info
\* directives, and in source order within one section.
C6_HandledBySectionThenSourceOrder ==
    \A i, j \in DOMAIN applied :
        i < j => \/ SectionRank(applied[i].sect) < SectionRank(applied[j].sect)
                 \/ /\ applied[i].sect = applied[j].sect
                    /\ applied[i].line < applied[j].line

C6_Witness ==
    \E i, j \in DOMAIN applied :
        /\ i < j
        /\ applied[i].sect = "v2"
        /\ applied[j].sect = "entity"
        /\ applied[i].line > applied[j].line
        /\ err = NoErr

\* The last declaration handled declares a composite entity
CompositeDeclared ==
    /\ Stepped
    /\ \/ Last.sect = "v2" /\ DeclaredType(prev, Last.decl) = "composite"
       \/ Last.sect = "entity" /\ Last.decl.Type = "["

DeclaredChildren ==
    IF Last.sect = "v2" THEN Last.decl.CompositeDefinition \o Flatten(Last.decl.ListBody)
    ELSE Last.decl.Children

ChildrenOf(L, nm) == L.composites[IdxByName(L.composites, nm)].children

\* C7: redeclaring a composite that holds a non-empty child set with the same
\* children in any order succeeds and keeps its roles and the declared ones;
\* redeclaring it with children that are all different raises
\* INVALID_COMPOSITE_ENTITY.
C7_CompositeRedeclared ==
    (/\ CompositeDeclared
     /\ HasName(prev.composites, Last.decl.Name)
     /\ ChildrenOf(prev, Last.decl.Name) # <<>>
     /\ DeclaredChildren # <<>>) =>
        /\ Range(DeclaredChildren) = Range(ChildrenOf(prev, Last.decl.Name)) =>
              /\ err = NoErr
              /\ TableRoles(prev.composites, Last.decl.Name) \cup Range(Last.decl.Roles)
                    \subseteq TableRoles(LUIS.composites, Last.decl.Name)
        /\ Range(DeclaredChildren) \cap Range(ChildrenOf(prev, Last.decl.Name)) = {} =>
              err.code = "INVALID_COMPOSITE_ENTITY"

\* What the registry holds under a name, table by table
Content(L, nm) ==
    [t \in Range(AllKindTables) \cup {"model_features"} |->
        SelectSeq(L[t], LAMBDA record : record.name = nm)]

\* C8: handling the same role-less declaration again succeeds and leaves
\* what the registry holds under the name (children, sublists and synonyms,
\* regex pattern, phrase-list words) as the declaration before left it.
C8_RepeatedDeclarationKeepsContent ==
    (Repeated /\ Last.decl.Roles = <<>>) =>
        /\ err = NoErr
        /\ Content(LUIS, Last.decl.Name) = Content(prev, Last.decl.Name)

\* The last declaration handled declares a simple entity, in either syntax
SimpleDeclared ==
    /\ Stepped
    /\ \/ Last.sect = "v2" /\ DeclaredType(prev, Last.decl) = "simple"
       \/ Last.sect = "entity" /\ Last.decl.Type = "simple"

\* A pattern-any record that no declaration made: a placeholder of a pattern did
HeldByPlaceholder(L, nm) ==
    HasName(L.patternAnyEntities, nm) /\ ~HasName(L.flatListOfEntityAndRoles, nm)

SimpleOnly(L, nm) == HasName(L.entities, nm) /\ ~HasName(L.patternAnyEntities, nm)

\* The last step leaves the records of the name alone: a QnA pair, a
\* model-info directive, or a legacy declaration of another name
OtherThan(nm) ==
    /\ Stepped
    /\ \/ Last.sect \in {"qna", "modelinfo"}
       \/ Last.sect = "entity" /\ Last.decl.Name # nm

\* C9: a simple declaration of a name that a pattern placeholder made a
\* pattern-any entity succeeds, makes the name a simple entity that holds the
\* roles of the pattern-any record, and removes that record; a placeholder of
\* a name that is a simple entity already gives its role to the simple entity
\* and makes no pattern-any record; and the steps that follow keep both.
C9_PlaceholderPromotedToSimple ==
    /\ (SimpleDeclared /\ HeldByPlaceholder(prev, Last.decl.Name)) =>
          /\ err = NoErr
          /\ SimpleOnly(LUIS, Last.decl.Name)
          /\ TableRoles(prev.patternAnyEntities, Last.decl.Name)
                \subseteq TableRoles(LUIS.entities, Last.decl.Name)
    /\ (Stepped /\ Last.sect = "intent") =>
          \A k \in DOMAIN Last.decl.line.entities :
              LET label == Last.decl.line.entities[k]
              IN  (label.type = "patternAnyEntities" /\ SimpleOnly(prev, label.entity)) =>
                      /\ err = NoErr
                      /\ SimpleOnly(LUIS, label.entity)
                      /\ label.role # "" => label.role \in TableRoles(LUIS.entities, label.entity)
    /\ \A i \in DOMAIN prev.entities :
          (OtherThan(prev.entities[i].name) /\ SimpleOnly(prev, prev.entities[i].name) /\ err = NoErr) =>
              /\ SimpleOnly(LUIS, prev.entities[i].name)
              /\ TableRoles(prev.entities, prev.entities[i].name)
                    \subseteq TableRoles(LUIS.entities, prev.entities[i].name)

C9_Witness ==
    /\ SimpleDeclared
    /\ HeldByPlaceholder(prev, Last.decl.Name)
    /\ TableRoles(prev.patternAnyEntities, Last.decl.Name) = {"r"}
    /\ SimpleOnly(LUIS, Last.decl.Name)
    /\ TableRoles(LUIS.entities, Last.decl.Name) = {"r"}

\* The last declaration handled declares a simple, list, composite, regex or
\* prebuilt entity, in either syntax
ConcreteDeclared ==
    /\ Stepped
    /\ \/ /\ Last.sect = "v2"
          /\ DeclaredType(prev, Last.decl) \in {"simple", "list", "composite", "regex", "prebuilt"}
       \/ /\ Last.sect = "entity"
          /\ Last.decl.Type \in {"simple", "list=", "[", "/"} \cup consolidatedList

\* The name RemoveDuplicatePatternAnyEntity is called with
DeclaredName ==
    IF Last.sect = "entity" /\ Last.decl.Name \in {"PREBUILT", "prebuilt"} THEN Last.decl.Type
    ELSE Last.decl.Name

\* C10: a declaration of a concrete kind for a name held as pattern-any,
\* whether a placeholder or an @ declaration made the pattern-any record,
\* succeeds, removes the record and carries its roles into the new record.
C10_PatternAnyPromoted ==
    (ConcreteDeclared /\ HasName(prev.patternAnyEntities, DeclaredName)) =>
        /\ err = NoErr
        /\ ~HasName(LUIS.patternAnyEntities, DeclaredName)
        /\ TableRoles(prev.patternAnyEntities, DeclaredName)
              \subseteq UNION {TableRoles(LUIS[KindTables[k]], DeclaredName) : k \in DOMAIN KindTables}

-----------------------------------------------------------------------------
\* Nothing of the file has been handled: no import, no declaration, and the
\* registry, the knowledge base and the lists of files are as constructed
Untouched ==
    /\ applied = <<>>
    /\ LUIS = EmptyLUIS
    /\ qna = EmptyQna
    /\ requests = <<>>
    /\ additionalFilesToParse = <<>>

\* C11: a resource with a diagnostic of severity ERROR ends the parse with
\* INVALID_LINE before any import, entity, intent, QnA pair or model-info
\* line is handled, so nothing is ever changed; a resource whose diagnostics
\* are all warnings passes the syntax check and is handled as usual.
C11_SyntaxErrorsEndTheParseFirst ==
    /\ Includes(errors, "ERROR") =>
            /\ Untouched
            /\ phase = "syntax"
            /\ err.code \in {"none", "INVALID_LINE"}
    /\ ~Includes(errors, "ERROR") =>
            (phase = "syntax" => err = NoErr /\ Untouched)

C11_Witness ==
    /\ errors = <<"WARN", "ERROR">>
    /\ err.code = "INVALID_LINE"

\* A resource with a warning only has had a declaration handled
C11_WarningsPass ==
    /\ errors = <<"WARN">>
    /\ Stepped
    /\ err = NoErr
    /\ LUIS # EmptyLUIS

-----------------------------------------------------------------------------
\* The imports handled so far that name a URI
UriImports ==
    {k \in DOMAIN applied : applied[k].sect = "reference" /\ applied[k].decl.response # "none"}

\* The last step handled an import whose HEAD request threw or was not ok
ImportFailed ==
    /\ Stepped
    /\ Last.sect = "reference"
    /\ Last.decl.response \in {"throws", "not ok"}

\* C12: the imports are resolved before anything is added to the registry.
\* Each URI import is requested once, and when the request throws or its
\* response is not ok the parse ends with INVALID_URI, without a second
\* request and with no entity, intent, utterance or pattern added.
C12_ImportsResolvedFirst ==
    /\ Len(requests) = Cardinality(UriImports)
    /\ \A k \in DOMAIN applied :
            applied[k].sect = "reference" =>
                \A j \in 1..k : applied[j].sect = "reference"
    /\ (Stepped /\ Last.sect = "reference") => LUIS = EmptyLUIS
    /\ ImportFailed =>
            /\ err.code = "INVALID_URI"
            /\ requests[Len(requests)] = <<"http://h", "/faq">>
            /\ qna.qnaList = <<>>

C12_Witness ==
    /\ ImportFailed
    /\ Len(applied) = 2
    /\ err.code = "INVALID_URI"
    /\ additionalFilesToParse # <<>>

-----------------------------------------------------------------------------
\* retCode.errorCode: the codes a validation failure is reported with
errorCode ==
    {"INVALID_LINE", "INVALID_URI", "INVALID_INPUT", "MISSING_LABELLED_VALUE",
     "INVALID_COMPOSITE_ENTITY", "SYNONYMS_NOT_A_LIST", "INVALID_REGEX_ENTITY"}

\* C13: whenever a validation failure ends the parse, the exception carries
\* one of the stable error codes; in particular a legacy regular expression
\* that starts with / and does not end with / ends it with
\* INVALID_REGEX_ENTITY.
C13_AbortsAreTyped ==
    /\ err # NoErr => err.code \in errorCode
    /\ (/\ Stepped
        /\ Last.sect = "entity"
        /\ Last.decl.Type = "/"
        /\ Last.decl.Regex[Len(Last.decl.Regex)] # "/") => err.code = "INVALID_REGEX_ENTITY"

-----------------------------------------------------------------------------
\* The last step redeclared a phrase list of the registry with the other
\* interchangeable flag
FlagConflict ==
    /\ Stepped
    /\ Last.sect \in {"v2", "entity"}
    /\ Last.decl.Type \in {"phraselist", "phraselist interchangeable"}
    /\ Last.decl.Roles = <<>>
    /\ \E i \in DOMAIN prev.model_features :
            /\ prev.model_features[i].name = "a"
            /\ prev.model_features[i].mode #
                    (IF Last.sect = "v2" THEN Last.decl.Name = "a(interchangeable)"
                     ELSE Last.decl.Type = "phraselist interchangeable")

\* C14: redeclaring a phrase list with the opposite interchangeable flag
\* ends the parse with INVALID_INPUT, and the phrase list keeps its values
\* and its flag.
C14_FlagConflictIsInvalidInput ==
    FlagConflict =>
        /\ err.code = "INVALID_INPUT"
        /\ LUIS.model_features = prev.model_features

-----------------------------------------------------------------------------
\* The last step handled an intent line with a pattern-any label and a
\* label of another type
MixedLine ==
    /\ Stepped
    /\ Last.sect = "intent"
    /\ \E l \in Range(Last.decl.line.entities) : l.type = "patternAnyEntities"
    /\ \E l \in Range(Last.decl.line.entities) : l.type # "patternAnyEntities"

\* C15: an intent line that mixes a pattern-any label with a label of
\* another type ends the parse with INVALID_INPUT, and the line adds no
\* pattern, no utterance and no entity.
C15_MixedLabelsRejected ==
    MixedLine =>
        /\ err.code = "INVALID_INPUT"
        /\ LUIS.patterns = prev.patterns
        /\ LUIS.utterances = prev.utterances
        /\ \A t \in Range(AllKindTables) : LUIS[t] = prev[t]
        /\ LUIS.flatListOfEntityAndRoles = prev.flatListOfEntityAndRoles

C15_Witness ==
    /\ MixedLine
    /\ prev.entities # <<>>
    /\ prev.patterns # <<>>
    /\ err.code = "INVALID_INPUT"

-----------------------------------------------------------------------------
\* The last step handled a phrase-list declaration, new-style or legacy
PhraseListDeclared ==
    /\ Stepped
    /\ Last.sect \in {"v2", "entity"}
    /\ Last.decl.Type \in {"phraselist", "phraselist interchangeable"}

\* C16: a phrase-list declaration with roles, new-style or legacy, ends the
\* parse with INVALID_INPUT and leaves the phrase lists as they were; no
\* phrase list of the registry carries a role.
C16_PhraseListRolesRejected ==
    /\ (PhraseListDeclared /\ Last.decl.Roles # <<>>) =>
            /\ err.code = "INVALID_INPUT"
            /\ LUIS.model_features = prev.model_features
    /\ \A i \in DOMAIN LUIS.model_features : RolesOf(LUIS.model_features[i]) = {}

C16_Witness ==
    /\ PhraseListDeclared
    /\ Last.sect = "entity"
    /\ Last.decl.Roles = <<"r">>
    /\ applied[1].sect = "v2"
    /\ prev.model_features # <<>>
    /\ err.code = "INVALID_INPUT"

-----------------------------------------------------------------------------
\* The last step handled a prebuilt declaration, new-style or legacy, whose
\* type is not a builtin type
UnknownPrebuilt ==
    /\ Stepped
    /\ \/ Last.sect = "v2" /\ Last.decl.Type = "prebuilt" /\ Last.decl.Name \notin consolidatedList
       \/ Last.sect = "entity" /\ Last.decl.Name = "PREBUILT" /\ Last.decl.Type \notin consolidatedList

\* C17: a prebuilt declaration whose type is not a builtin type ends the
\* parse with INVALID_INPUT, whatever the locale and the logging setting,
\* and adds no prebuilt record.
C17_UnknownPrebuiltRejected ==
    UnknownPrebuilt =>
        /\ err.code = "INVALID_INPUT"
        /\ LUIS.prebuiltEntities = prev.prebuiltEntities

-----------------------------------------------------------------------------
\* The file is '@ simple s1 sr1' followed by the declaration of the list l1
\* with roles lr1, lr2 and the sublists of one and four, and both are handled
SimpleThenList ==
    /\ Len(applied) = 2
    /\ applied[1].sect = "v2" /\ applied[1].decl.Name = "s1"
    /\ applied[2].sect = "v2" /\ applied[2].decl.Name = "l1"
    /\ applied[2].decl.Roles = <<"lr1", "lr2">>

\* C18: '@ simple s1 sr1' followed by '@ list l1 hasRoles lr1,lr2 =' with the
\* lines one :, two, three, four :, five, six gives one simple entity s1 with
\* role sr1 and one list l1 with roles lr1, lr2 and two sublists in this
\* order: one with synonyms two, three and four with synonyms five, six.
C18_SimpleAndListScenario ==
    SimpleThenList =>
        /\ err = NoErr
        /\ Len(LUIS.entities) = 1
        /\ LUIS.entities[1].name = "s1"
        /\ LUIS.entities[1].roles = <<"sr1">>
        /\ Len(LUIS.closedLists) = 1
        /\ LUIS.closedLists[1].name = "l1"
        /\ LUIS.closedLists[1].roles = <<"lr1", "lr2">>
        /\ LUIS.closedLists[1].subLists =
                <<subList("one", <<"two", "three">>), subList("four", <<"five", "six">>)>>
        /\ \A t \in {"composites", "regex_entities", "prebuiltEntities", "patternAnyEntities",
                     "model_features", "patterns", "utterances"} : LUIS[t] = <<>>

C18_Witness ==
    /\ SimpleThenList
    /\ Len(LUIS.closedLists[1].subLists) = 2

-----------------------------------------------------------------------------
\* The values of a comma-joined string, in order
RECURSIVE SplitComma(_, _)
SplitComma(words, value) ==
    IF words = <<>> THEN <<value>>
    ELSE IF Head(words) = "," THEN <<value>> \o SplitComma(Tail(words), <<>>)
    ELSE SplitComma(Tail(words), Append(value, Head(words)))

\* The phrase-list declarations that were handled without an exception
PhraseListsHandled ==
    {k \in DOMAIN applied :
        /\ applied[k].sect \in {"v2", "entity"}
        /\ applied[k].decl.Type \in {"phraselist", "phraselist interchangeable"}
        /\ (k = Len(applied) => err = NoErr)}

\* The values a phrase-list declaration lists
ValuesOf(decl) ==
    Range(Flatten(IF "ListBody" \in DOMAIN decl THEN decl.ListBody ELSE decl.SynonymsOrPhraseList))

\* C19: a value is left out of a phrase list only when the phrase list holds
\* that very value: the comma-joined string of the phrase list holds every
\* value declared for it exactly once.
C19_EveryValueOnce ==
    \A k \in PhraseListsHandled :
        \A v \in ValuesOf(applied[k].decl) :
            \A i \in DOMAIN LUIS.model_features :
                LET held == SplitComma(LUIS.model_features[i].words, <<>>)
                IN  Cardinality({j \in DOMAIN held : held[j] = v}) = 1

-----------------------------------------------------------------------------
\* The last step handled a declaration of the regular expression a
RegExDeclared ==
    /\ Stepped
    /\ \/ Last.sect = "v2" /\ Last.decl.Type = "regex"
       \/ Last.sect = "entity" /\ Last.decl.Type = "/" /\ Last.decl.Regex[Len(Last.decl.Regex)] = "/"

\* The pattern the last declaration gives between its slashes, <<>> if none
DeclaredPattern ==
    LET definition == IF Last.sect = "v2" THEN Last.decl.RegexDefinition ELSE Last.decl.Regex
    IN  IF definition = <<>> THEN <<>> ELSE SubSeq(definition, 2, Len(definition) - 1)

\* The pattern a registry stores for the regular expression nm, <<>> if none
StoredPattern(L, nm) ==
    LET i == IdxByName(L.regex_entities, nm)
    IN  IF i = 0 THEN <<>> ELSE L.regex_entities[i].regexPattern

\* C20: the pattern stored for a regular expression is the first non-empty
\* pattern declared for it: a declaration keeps a pattern already stored and
\* otherwise stores its own, and a declaration with another non-empty
\* pattern ends the parse with INVALID_REGEX_ENTITY and leaves the stored
\* pattern and the roles as they were.
C20_FirstPatternKept ==
    RegExDeclared =>
        LET old == StoredPattern(prev, "a")
        IN  /\ Len(LUIS.regex_entities) <= 1
            /\ (err = NoErr /\ old # <<>>) => StoredPattern(LUIS, "a") = old
            /\ (err = NoErr /\ old = <<>>) => StoredPattern(LUIS, "a") = DeclaredPattern
            /\ (old # <<>> /\ DeclaredPattern # <<>> /\ DeclaredPattern # old) =>
                    /\ err.code = "INVALID_REGEX_ENTITY"
                    /\ LUIS.regex_entities = prev.regex_entities

C20_Witness ==
    /\ RegExDeclared
    /\ Len(applied) = 3
    /\ applied[1].decl.RegexDefinition = <<>>
    /\ StoredPattern(prev, "a") = <<"p">>
    /\ DeclaredPattern = <<"q">>
    /\ err.code = "INVALID_REGEX_ENTITY"
    /\ StoredPattern(LUIS, "a") = <<"p">>

-----------------------------------------------------------------------------
\* The last step handled a declaration of a regular expression, new-style
\* and of a name the flat index holds under no other kind, or legacy with
\* its closing slash, and the declaration gives no character of a pattern
EmptyPatternDeclared ==
    /\ RegExDeclared
    /\ Last.sect = "v2" => ~HeldUnderOtherKind(prev, Last.decl)
    /\ DeclaredPattern = <<>>

\* The declaration writes slashes
SlashesWritten ==
    (IF Last.sect = "v2" THEN Last.decl.RegexDefinition ELSE Last.decl.Regex) # <<>>

-----------------------------------------------------------------------------
\* The last step handled a new-style declaration without children of a
\* composite that has children, and no role or name of the declaration
\* collides with another entity
RolesOnlyRedeclared ==
    /\ CompositeDeclared
    /\ Last.sect = "v2"
    /\ DeclaredChildren = <<>>
    /\ HasName(prev.composites, Last.decl.Name)
    /\ ChildrenOf(prev, Last.decl.Name) # <<>>
    /\ ~ListsNameOfOther(prev, Last.decl)
    /\ ~NamedAsRoleOfOther(prev, Last.decl)
    /\ ~ListsRoleOfOther(prev, Last.decl)

\* C22: redeclaring a composite that has children with an empty child list
\* raises no error, leaves the children as they were and adds the declared
\* roles to the roles of the composite.
C22_RolesOnlyRedeclarationSucceeds ==
    RolesOnlyRedeclared =>
        /\ err = NoErr
        /\ ChildrenOf(LUIS, Last.decl.Name) = ChildrenOf(prev, Last.decl.Name)
        /\ TableRoles(LUIS.composites, Last.decl.Name)
              = TableRoles(prev.composites, Last.decl.Name) \cup Range(Last.decl.Roles)

-----------------------------------------------------------------------------
\* The last step handled a new-style list declaration whose body starts with
\* a synonym line, and no role or name of the declaration collides with
\* another entity
SynonymsBeforeHeader ==
    /\ Stepped
    /\ Last.sect = "v2"
    /\ DeclaredType(prev, Last.decl) = "list"
    /\ Last.decl.ListBody # <<>>
    /\ ~Last.decl.ListBody[1].header
    /\ ~HeldUnderOtherKind(prev, Last.decl)
    /\ ~ListsNameOfOther(prev, Last.decl)
    /\ ~NamedAsRoleOfOther(prev, Last.decl)
    /\ ~ListsRoleOfOther(prev, Last.decl)

\* C23: a synonym line of a list body that no header line precedes ends the
\* parse with SYNONYMS_NOT_A_LIST, and the list is neither added to the
\* registry nor changed in it.
C23_SynonymsNeedHeader ==
    SynonymsBeforeHeader =>
        /\ err.code = "SYNONYMS_NOT_A_LIST"
        /\ LUIS.closedLists = prev.closedLists

C23_Witness ==
    /\ SynonymsBeforeHeader
    /\ HasName(prev.closedLists, "l1")
    /\ err.code = "SYNONYMS_NOT_A_LIST"

-----------------------------------------------------------------------------
\* No item occurs twice in the sequence
NoneTwice(seq) == \A i, j \in DOMAIN seq : seq[i] = seq[j] => i = j

\* C24: while every declaration has been handled without exception, the
\* sublists of a list hold each canonical form at most once and each sublist
\* holds each synonym at most once.
C24_SublistsAndSynonymsOnce ==
    err = NoErr =>
        \A i \in DOMAIN LUIS.closedLists :
            LET subLists == LUIS.closedLists[i].subLists
            IN  /\ NoneTwice([k \in DOMAIN subLists |-> subLists[k].canonicalForm])
                /\ \A k \in DOMAIN subLists : NoneTwice(subLists[k].list)

-----------------------------------------------------------------------------
\* The last step handled a new-style declaration of a pattern-any entity the
\* registry holds, and no role or name of the declaration collides with
\* another entity
PatternAnyRedeclared ==
    /\ Stepped
    /\ Last.sect = "v2"
    /\ DeclaredType(prev, Last.decl) = "patternany"
    /\ HasName(prev.patternAnyEntities, Last.decl.Name)
    /\ ~ListsNameOfOther(prev, Last.decl)
    /\ ~NamedAsRoleOfOther(prev, Last.decl)
    /\ ~ListsRoleOfOther(prev, Last.decl)

\* C25: redeclaring a pattern-any entity with further roles leaves one
\* pattern-any record of the name, and its roles are the roles of all its
\* declarations.
C25_PatternAnyRolesUnited ==
    PatternAnyRedeclared =>
        /\ err = NoErr
        /\ Cardinality({i \in DOMAIN LUIS.patternAnyEntities :
                            LUIS.patternAnyEntities[i].name = Last.decl.Name}) = 1
        /\ TableRoles(LUIS.patternAnyEntities, Last.decl.Name)
              = TableRoles(prev.patternAnyEntities, Last.decl.Name) \cup Range(Last.decl.Roles)
        /\ TableRoles(LUIS.patternAnyEntities, Last.decl.Name)
              = UNION {Range(applied[k].decl.Roles) :
                          k \in {j \in DOMAIN applied :
                                    /\ applied[j].sect = "v2"
                                    /\ applied[j].decl.Name = Last.decl.Name}}

-----------------------------------------------------------------------------
\* The builtin type the last declaration names, "" if it is no prebuilt
\* declaration
PrebuiltType ==
    IF Last.sect = "v2" /\ Last.decl.Type = "prebuilt" THEN Last.decl.Name
    ELSE IF Last.sect = "entity" /\ Last.decl.Name = "PREBUILT" THEN Last.decl.Type
    ELSE ""

\* The last step handled a prebuilt declaration of a builtin type that the
\* locale of the parse does not have
UnavailablePrebuilt ==
    /\ Stepped
    /\ Last.sect \in {"v2", "entity"}
    /\ PrebuiltType \in consolidatedList
    /\ perLocaleAvailability[IF locale # "" THEN locale ELSE "en-us"][PrebuiltType] = "null"

\* C26: a prebuilt declaration of a builtin type that the locale does not
\* have ends the parse with INVALID_INPUT when logging is off; with logging
\* on the parse goes on and the declaration leaves the registry, flat index
\* included, as it was.
C26_UnavailablePrebuiltSkipped ==
    UnavailablePrebuilt =>
        IF log THEN err = NoErr /\ LUIS = prev
        ELSE err.code = "INVALID_INPUT"

-----------------------------------------------------------------------------
(* Labels of an utterance line *)

\* An intent line that carries labels, none of them a pattern.any label, has
\* been handled
LabelledLine ==
    /\ Stepped
    /\ Last.sect = "intent"
    /\ Last.decl.line.entities # <<>>
    /\ \A i \in DOMAIN Last.decl.line.entities :
          Last.decl.line.entities[i].type # "patternAnyEntities"

FirstLabel == Last.decl.line.entities[1]

LookupOrder == <<"composites", "closedLists", "prebuiltEntities", "regex_entities", "patternAnyEntities">>

\* The first table of the lookup order that holds the name, "" when none does
FirstTable(L, name) ==
    LET held == {k \in DOMAIN LookupOrder : HasName(L[LookupOrder[k]], name)}
    IN  IF held = {} THEN ""
        ELSE LookupOrder[CHOOSE k \in held : \A j \in held : k <= j]

RegisteredSimple(L, label) ==
    /\ HasName(L.entities, label.entity)
    /\ label.role # "" => Includes(L.entities[IdxByName(L.entities, label.entity)].roles, label.role)

BlankLabel ==
    /\ LabelledLine
    /\ \E i \in DOMAIN Last.decl.line.entities :
          Last.decl.line.entities[i].startPos > Last.decl.line.entities[i].endPos

\* A label of the line, without role, names a list, prebuilt or regex entity
RoleRequired ==
    \E i \in DOMAIN Last.decl.line.entities :
        /\ Last.decl.line.entities[i].role = ""
        /\ FirstTable(prev, Last.decl.line.entities[i].entity)
              \in {"closedLists", "prebuiltEntities", "regex_entities"}

TextsAndIntents(L) == [i \in DOMAIN L.utterances |-> <<L.utterances[i].text, L.utterances[i].intent>>]

SamePair(u) == u.text = Last.decl.line.utterance /\ u.intent = Last.decl.Name

PairExists ==
    /\ Stepped
    /\ Last.sect = "intent"
    /\ err = NoErr
    /\ \E i \in DOMAIN prev.utterances : SamePair(prev.utterances[i])

\* C29: the utterance list holds at most one utterance of a text and an
\* intent, and a line whose text and intent are those of an utterance of the
\* list leaves the list as long as it was and appends its labels to that
\* utterance
C29_OneUtterancePerPair ==
    /\ \A i, j \in DOMAIN LUIS.utterances :
          TextsAndIntents(LUIS)[i] = TextsAndIntents(LUIS)[j] => i = j
    /\ PairExists =>
          /\ Len(LUIS.utterances) = Len(prev.utterances)
          /\ \A i \in DOMAIN prev.utterances :
                LUIS.utterances[i] =
                    IF SamePair(prev.utterances[i])
                    THEN [prev.utterances[i] EXCEPT !.entities =
                            @ \o [k \in DOMAIN Last.decl.line.entities |->
                                    utteranceEntity(Last.decl.line.entities[k])]]
                    ELSE prev.utterances[i]

C29_Witness ==
    /\ PairExists
    /\ Last.decl.line.entities # <<>>
    /\ \E i \in DOMAIN LUIS.utterances :
          /\ SamePair(LUIS.utterances[i])
          /\ Len(LUIS.utterances[i].entities) = 2
    /\ \E i \in DOMAIN LUIS.utterances :
          /\ LUIS.utterances[i].text = Last.decl.line.utterance
          /\ LUIS.utterances[i].intent # Last.decl.Name

\* C30: the pattern list holds no two patterns with the same text and the
\* same intent, whether they come from lines with pattern.any labels or from
\* unlabelled lines that carry pattern syntax
C30_NoPatternTwice ==
    \A i, j \in DOMAIN LUIS.patterns : LUIS.patterns[i] = LUIS.patterns[j] => i = j

-----------------------------------------------------------------------------
(* References with @ in a pattern line *)

\* A pattern line whose one placeholder is a reference {@x} has been handled
AtReference ==
    /\ Stepped
    /\ Last.sect = "intent"
    /\ Len(Last.decl.line.entities) = 1
    /\ Last.decl.line.entities[1].type = "patternAnyEntities"
    /\ Last.decl.line.entities[1].at

Referenced == Last.decl.line.entities[1].entity

\* The entities of the flat index that have the referenced name as a role
RoleOwners ==
    {prev.flatListOfEntityAndRoles[i].name : i \in
        {k \in DOMAIN prev.flatListOfEntityAndRoles :
            Includes(prev.flatListOfEntityAndRoles[k].roles, Referenced)}}

\* The line's pattern is in the pattern list with tok in the place of {@x}
StoredWith(tok) ==
    Includes(LUIS.patterns,
             pattern([Last.decl.line.utterance EXCEPT ![Len(Last.decl.line.utterance)] = tok],
                     Last.decl.Name))

\* C31 as stated: {@x} in a pattern line is stored as {e:x} when x is a role
\* of entity e in the flat index and as {x} when x is an entity of the index;
\* when x is neither, it is stored as written; no error is raised
C31_AtReferenceRewritten ==
    AtReference =>
        /\ err = NoErr
        /\ IF RoleOwners # {}
           THEN \E e \in RoleOwners : StoredWith(<<"{", e, ":", Referenced, "}">>)
           ELSE IF \E i \in DOMAIN prev.flatListOfEntityAndRoles :
                      prev.flatListOfEntityAndRoles[i].name = Referenced
           THEN StoredWith(<<"{", Referenced, "}">>)
           ELSE StoredWith(<<"{@", Referenced, "}">>)

\* C31: {@x} in a pattern line is stored as {e:x} when x is a role of entity
\* e in the flat index and as {x} otherwise, whether x is an entity of the
\* index or not; no error is raised
C31_AtReferenceResolved ==
    AtReference =>
        /\ err = NoErr
        /\ IF RoleOwners # {}
           THEN \E e \in RoleOwners : StoredWith(<<"{", e, ":", Referenced, "}">>)
           ELSE /\ StoredWith(<<"{", Referenced, "}">>)
                /\ ~StoredWith(<<"{@", Referenced, "}">>)

C31_Witness ==
    /\ AtReference
    /\ RoleOwners = {"a"}
    /\ StoredWith(<<"{", "a", ":", Referenced, "}">>)

-----------------------------------------------------------------------------
(* Model-info directives *)

\* A directive that does not have the form of @app.key = value,
\* @kb.key = value or @intent|entity.inherits = name:n;k1:v1;k2:v2
Malformed(modelInfo) ==
    \/ modelInfo.Parts # 4
    \/ modelInfo.Blank
    \/ /\ modelInfo.Section \in {"intent", "entity"}
       /\ modelInfo.Key # "inherits" \/ Len(modelInfo.Props) # 6

MalformedDirective ==
    /\ Stepped
    /\ Last.sect = "modelinfo"
    /\ Malformed(Last.decl)

\* C32: a malformed model-info directive raises nothing and leaves the
\* registry as it was, and without verbose logging nothing is written to
\* stdout
C32_MalformedDirectiveSkipped ==
    MalformedDirective =>
        /\ err = NoErr
        /\ LUIS = prev
        /\ ~log => stdout = <<>>

\* A well-formed @intent.inherits or @entity.inherits directive has been
\* handled
InheritsDirective(section) ==
    /\ Stepped
    /\ Last.sect = "modelinfo"
    /\ ~Malformed(Last.decl)
    /\ Last.decl.Section = section
    /\ Last.decl.Key = "inherits"

Inherited == Last.decl.Props[2]

\* C33: a well-formed inherits directive adds an intent only when no intent
\* of the name is in the registry, and an entity only when no entity of the
\* name is in any kind table; otherwise no record is added
C33_InheritsCreatesWhenAbsent ==
    /\ InheritsDirective("intent") =>
          /\ HasName(LUIS.intents, Inherited)
          /\ Len(LUIS.intents) = Len(prev.intents) + (IF HasName(prev.intents, Inherited) THEN 0 ELSE 1)
    /\ InheritsDirective("entity") =>
          /\ HasName(Records(LUIS), Inherited)
          /\ Len(Records(LUIS)) = Len(Records(prev)) + (IF HasName(Records(prev), Inherited) THEN 0 ELSE 1)

-----------------------------------------------------------------------------
(* A simple entity and a declaration of another kind *)

\* The kind table the last declaration is for, "" for a simple entity, a
\* pattern.any, a phrase list and what is not an entity declaration
DeclaredTable ==
    IF ~Stepped THEN ""
    ELSE IF Last.sect = "v2"
    THEN CASE DeclaredType(prev, Last.decl) = "list" -> "closedLists"
           [] DeclaredType(prev, Last.decl) = "regex" -> "regex_entities"
           [] DeclaredType(prev, Last.decl) = "composite" -> "composites"
           [] DeclaredType(prev, Last.decl) = "prebuilt" -> "prebuiltEntities"
           [] OTHER -> ""
    ELSE IF Last.sect = "entity"
    THEN CASE Last.decl.Type = "list=" -> "closedLists"
           [] Last.decl.Type = "/" -> "regex_entities"
           [] Last.decl.Type = "[" -> "composites"
           [] Last.decl.Type \in consolidatedList -> "prebuiltEntities"
           [] OTHER -> ""
    ELSE ""

\* C34: a list, regex, composite or prebuilt declaration that succeeds for a
\* name held as a simple entity removes the simple entity, and the record of
\* the new kind has every role the simple entity had; a phrase-list
\* declaration leaves the simple entity in place
C34_SimpleAbsorbed ==
    /\ (DeclaredTable # "" /\ err = NoErr /\ HasName(prev.entities, DeclaredName)) =>
          /\ ~HasName(LUIS.entities, DeclaredName)
          /\ TableRoles(prev.entities, DeclaredName) \subseteq TableRoles(LUIS[DeclaredTable], DeclaredName)
    /\ (PhraseListDeclared /\ err = NoErr /\ HasName(prev.entities, Last.decl.Name)) =>
          /\ HasName(LUIS.entities, Last.decl.Name)
          /\ HasName(LUIS.model_features, Last.decl.Name)

-----------------------------------------------------------------------------
(* A declaration for a name the utterances label *)

\* An utterance of the registry L labels the name nm without a role
LabelledWithoutRole(L, nm) ==
    \E i \in DOMAIN L.utterances :
        \E k \in DOMAIN L.utterances[i].entities :
            /\ L.utterances[i].entities[k].entity = nm
            /\ L.utterances[i].entities[k].role = ""

\* A list, regex, prebuilt or pattern.any declaration has been handled
LabelCheckedDeclared ==
    \/ DeclaredTable \in {"closedLists", "regex_entities", "prebuiltEntities"}
    \/ Stepped /\ Last.sect = "v2" /\ DeclaredType(prev, Last.decl) = "patternany"

\* C35: a list, regex, prebuilt or pattern.any declaration for a name that
\* some utterance labels without a role ends the parse with an error,
\* whichever utterance that is; a phrase-list declaration for such a name
\* does not
C35_LabelledNameRejected ==
    /\ (LabelCheckedDeclared /\ LabelledWithoutRole(prev, DeclaredName)) => err # NoErr
    /\ (PhraseListDeclared /\ Last.decl.Roles = <<>> /\ LabelledWithoutRole(prev, Last.decl.Name))
          => err = NoErr

-----------------------------------------------------------------------------
(* Names stay in the registry *)

NamesOf(L) == {Records(L)[i].name : i \in DOMAIN Records(L)}

\* C36: a step that succeeds leaves every entity name of the registry in
\* some kind table: a record is removed only when a record of another kind
\* takes the name
C36_NamesStay ==
    (Stepped /\ err = NoErr) => NamesOf(prev) \subseteq NamesOf(LUIS)

\* What flattenLists pushed, in the order it pushed
Spans == retObj.entitiesFound

\* The text between the positions of a span in the value flattenLists returned for the outer label
TextAt(span) ==
    LET lo == span.startPos - retObj.parentIdx + 1
        hi == span.endPos - retObj.parentIdx + 1
    IN  IF hi < lo THEN <<>>
        ELSE IF lo >= 1 /\ hi <= Len(retObj.ret) THEN SubSeq(retObj.ret, lo, hi)
        ELSE <<"outside">>

\* C37: every span flattenLists emits is as long as its resolved value, the
\* flattened text between its positions is that value, and the spans of nested
\* labels are emitted before the span of the label enclosing them.
C37_SpansMatchText ==
    retObj.called =>
        /\ \A i \in DOMAIN Spans :
               /\ Spans[i].endPos - Spans[i].startPos + 1 = Len(Spans[i].value)
               /\ TextAt(Spans[i]) = Spans[i].value
        /\ Spans[Len(Spans)].entity = list.entity
        /\ \A i \in 1..(Len(Spans) - 1) : Spans[i].entity # list.entity

\* Every role of the list r occurs in it once
RolesOnce(r) == \A i, j \in DOMAIN r : r[i] = r[j] => i = j

\* C38: after any sequence of operations, the role list of every entity
\* record of the registry holds each role at most once.
C38_RolesOnce ==
    \A i \in DOMAIN Records(LUIS) : RolesOnce(Records(LUIS)[i].roles)

\* The kind table the records of an entity type are kept in
KindTable(type) ==
    CASE type \in {"simple", "ml"} -> "entities"
      [] type = "composite" -> "composites"
      [] type = "list" -> "closedLists"
      [] type = "regex" -> "regex_entities"
      [] type = "prebuilt" -> "prebuiltEntities"
      [] type = "patternany" -> "patternAnyEntities"
      [] IncludesPhraselist(type) -> "model_features"
      [] OTHER -> ""

\* The table of the entry's kind holds a record of the entry's name with every role of the entry
Backed(L, entry) ==
    /\ KindTable(entry.type) # ""
    /\ \E j \in DOMAIN L[KindTable(entry.type)] :
           /\ L[KindTable(entry.type)][j].name = entry.name
           /\ Range(entry.roles) \subseteq RolesOf(L[KindTable(entry.type)][j])

\* C39: after a parse that raised nothing, every entry of the flat name/role
\* index has a record of its name in the table of its kind, and every role of
\* the entry is a role of that record.
C39_FlatIndexBacked ==
    err = NoErr =>
        \A i \in DOMAIN LUIS.flatListOfEntityAndRoles : Backed(LUIS, LUIS.flatListOfEntityAndRoles[i])

\* The first label of the line has a value and names a phrase list that no other table holds
PhraseListLabelled ==
    /\ LabelledLine
    /\ FirstLabel.value # ""
    /\ HasName(prev.model_features, FirstLabel.entity)
    /\ \A i \in DOMAIN Records(prev) : Records(prev)[i].name # FirstLabel.entity

\* C40: a labelled utterance that gives a value to a name defined only as a
\* phrase list raises INVALID_INPUT.
C40_PhraseListLabelRejected ==
    PhraseListLabelled => err.code = "INVALID_INPUT"

====
